---- MODULE Spec2Model ----
(***************************************************************************)
(* A model of pysway: the i3-ipc transport of SwayIPC (src/pysway/ipc.py)  *)
(* and the window policies of SwayUtils (src/pysway/extra/utils.py).       *)
(*                                                                         *)
(* Two specifications share the module.                                    *)
(*   SpecFrame  the byte level: _send packs a frame, the socket delivers   *)
(*              the peer's bytes in chunks of any size, _recv reassembles  *)
(*              and decodes them.                                          *)
(*   Spec       the message level: the public operations of SwayIPC and    *)
(*              SwayUtils as sequences of _send and _recv on one           *)
(*              connection to a manager that answers every request.        *)
(***************************************************************************)
EXTENDS Integers, Sequences, FiniteSets, TLC

\* ------------------------------------------------------------------------
\* Bounds of the model
\* ------------------------------------------------------------------------

\* Frames written to the inbound stream in one behaviour of SpecFrame.
MaxFrames == 2

\* Requests unanswered or replies unread beyond which no operation is
\* called in Spec.
MaxBacklog == 1

\* The largest max_retries passed to get_view.
MaxRetries == 2

\* ------------------------------------------------------------------------
\* Program constants
\* ------------------------------------------------------------------------

RUN_COMMAND == 0
SUBSCRIBE == 2
GET_TREE == 4

\* The size of struct "=6sII": the 14 of `while len(buffer) < 14`.
HeaderLen == 14

\* b"i3-ipc"
Magic == <<105, 51, 45, 105, 112, 99>>

\* ------------------------------------------------------------------------
\* Small helpers
\* ------------------------------------------------------------------------

Min(a, b) == IF a < b THEN a ELSE b

Take(s, k) == SubSeq(s, 1, k)

Drop(s, k) == SubSeq(s, k + 1, Len(s))

\* ------------------------------------------------------------------------
\* struct.pack / struct.unpack with format "=6sII" (native byte order,
\* standard sizes, no padding; little-endian as on x86-64 and aarch64)
\* ------------------------------------------------------------------------

U32(n) ==
    << n % 256, (n \div 256) % 256, (n \div 65536) % 256,
       (n \div 16777216) % 256 >>

FromU32(b) == b[1] + 256 * b[2] + 65536 * b[3] + 16777216 * b[4]

pack(magic, length, msg_type) == magic \o U32(length) \o U32(msg_type)

unpack(buf) ==
    [ magic    |-> SubSeq(buf, 1, 6),
      length   |-> FromU32(SubSeq(buf, 7, 10)),
      msg_type |-> FromU32(SubSeq(buf, 11, 14)) ]

\* ------------------------------------------------------------------------
\* str.encode("utf-8") and the decoding json.loads applies to bytes.
\* A str is a sequence of code points below U+0800, so one or two bytes each.
\* ------------------------------------------------------------------------

RECURSIVE utf8_encode(_)
utf8_encode(s) ==
    IF s = <<>> THEN <<>>
    ELSE IF s[1] < 128 THEN <<s[1]>> \o utf8_encode(Tail(s))
    ELSE <<192 + (s[1] \div 64), 128 + (s[1] % 64)>> \o utf8_encode(Tail(s))

RECURSIVE utf8_decode(_)
utf8_decode(b) ==
    IF b = <<>> THEN [ok |-> TRUE, s |-> <<>>]
    ELSE IF b[1] < 128
    THEN LET r == utf8_decode(Tail(b))
         IN  [ok |-> r.ok, s |-> <<b[1]>> \o r.s]
    ELSE IF /\ b[1] >= 194 /\ b[1] <= 223
            /\ Len(b) >= 2 /\ b[2] >= 128 /\ b[2] <= 191
    THEN LET r == utf8_decode(Drop(b, 2))
         IN  [ok |-> r.ok, s |-> <<(b[1] - 192) * 64 + (b[2] - 128)>> \o r.s]
    ELSE [ok |-> FALSE, s |-> <<>>]

\* ------------------------------------------------------------------------
\* json.loads, on the JSON texts the model uses: an integer or a string
\* literal without escapes, with optional whitespace around it.  The value
\* is kept as its kind and its canonical text.
\* ------------------------------------------------------------------------

IsWs(c) == c \in {32, 9, 10, 13}

RECURSIVE lstrip(_)
lstrip(s) == IF s # <<>> /\ IsWs(s[1]) THEN lstrip(Tail(s)) ELSE s

RECURSIVE rstrip(_)
rstrip(s) ==
    IF s # <<>> /\ IsWs(s[Len(s)]) THEN rstrip(Take(s, Len(s) - 1)) ELSE s

IsInt(s) ==
    /\ s # <<>>
    /\ \A i \in 1..Len(s) : s[i] >= 48 /\ s[i] <= 57
    /\ (Len(s) > 1 => s[1] # 48)

IsStringLiteral(s) ==
    /\ Len(s) >= 2
    /\ s[1] = 34
    /\ s[Len(s)] = 34
    /\ \A i \in 2..(Len(s) - 1) : s[i] >= 32 /\ s[i] # 34 /\ s[i] # 92

json_text(s) ==
    LET t == rstrip(lstrip(s))
    IN  IF IsInt(t) THEN [ok |-> TRUE, kind |-> "int", text |-> t]
        ELSE IF IsStringLiteral(t)
        THEN [ok |-> TRUE, kind |-> "str", text |-> SubSeq(t, 2, Len(t) - 1)]
        ELSE [ok |-> FALSE, kind |-> "", text |-> <<>>]

\* What `try: json.loads(...) except json.JSONDecodeError: return None`
\* leaves _recv with: the value, None, or the UnicodeDecodeError json.loads
\* raises for bytes that are not UTF-8 (it is not a JSONDecodeError).
loads(b) ==
    LET d == utf8_decode(b)
    IN  IF ~d.ok
        THEN [kind |-> "UnicodeDecodeError", vkind |-> "", data |-> <<>>]
        ELSE LET j == json_text(d.s)
             IN  IF j.ok
                 THEN [kind |-> "value", vkind |-> j.kind, data |-> j.text]
                 ELSE [kind |-> "None", vkind |-> "", data |-> <<>>]

RetNone == [kind |-> "None", vkind |-> "", data |-> <<>>]

RetValueError == [kind |-> "ValueError", vkind |-> "", data |-> <<>>]

NoRet == [kind |-> "none", vkind |-> "", data |-> <<>>]

\* ------------------------------------------------------------------------
\* The manager's tree: a node of the get_tree reply, as the dict the code
\* reads.  A key the code reads with .get and that is absent is "" (name,
\* shell, current_workspace) or 0 (id).
\* ------------------------------------------------------------------------

\* The "pid" of a node: absent, an integer, or a JSON string.
NoPid == [kind |-> "absent", n |-> 0]

Pid(n) == [kind |-> "int", n |-> n]

PidStr == [kind |-> "str", n |-> 0]

\* The "rect" of a node: absent, or an object with or without "width" and
\* "height".
NoRect == [present |-> FALSE, sized |-> FALSE, width |-> 0, height |-> 0]

Rect(w, h) == [present |-> TRUE, sized |-> TRUE, width |-> w, height |-> h]

Node(type, id, name) ==
    [ type |-> type, id |-> id, name |-> name, shell |-> "",
      scratchpad_state |-> "none", current_workspace |-> "",
      focused |-> FALSE, nodes |-> <<>>, floating_nodes |-> <<>>,
      pid |-> NoPid, rect |-> NoRect ]

NoNode == Node("", 0, "")

View(id, shell, scratchpad_state) ==
    [Node("con", id, "view") EXCEPT
        !.shell = shell, !.scratchpad_state = scratchpad_state]

Workspace(id, name, views) ==
    [Node("workspace", id, name) EXCEPT !.nodes = views]

Output(id, name, current_workspace, workspaces) ==
    [Node("output", id, name) EXCEPT
        !.current_workspace = current_workspace, !.nodes = workspaces]

Root(outputs) == [Node("root", 1, "root") EXCEPT !.nodes = outputs]

\* A floating container with tiled children.
Floating(id, views) ==
    [Node("floating_con", id, "view") EXCEPT
        !.shell = "xdg_shell", !.nodes = views]

WithFloating(node, floating) == [node EXCEPT !.floating_nodes = floating]

WithPid(node, pid) == [node EXCEPT !.pid = pid]

WithRect(node, rect) == [node EXCEPT !.rect = rect]

Focused(node) == [node EXCEPT !.focused = TRUE]

\* A view: node.get("type") in ["con", "floating_con"]
IsViewNode(node) == node.type \in {"con", "floating_con"}

\* The children a traversal visits: node.get("nodes", []) +
\* node.get("floating_nodes", []).
Children(node) == node.nodes \o node.floating_nodes

\* Every node of a tree, the root included.
RECURSIVE NodesOf(_)
NodesOf(node) ==
    {node} \cup UNION { NodesOf(Children(node)[i]) :
                            i \in 1..Len(Children(node)) }

\* ------------------------------------------------------------------------
\* Python values the operations pass around: what _recv returns, what an
\* operation returns or raises
\* ------------------------------------------------------------------------

Val(kind) ==
    [kind |-> kind, node |-> NoNode, str |-> "", list |-> <<>>, int |-> 0]

None == Val("None")

True == Val("True")

False == Val("False")

Dict(node) == [Val("dict") EXCEPT !.node = node]

Str(s) == [Val("str") EXCEPT !.str = s]

List(l) == [Val("list") EXCEPT !.list = l]

IntVal(n) == [Val("int") EXCEPT !.int = n]

Raise(exc) == [Val("raise") EXCEPT !.str = exc]

\* `if v:` / `if not v:`.  The reply to a run-command is a non-empty list,
\* the reply to a subscribe a non-empty dict.
Truthy(v) ==
    \/ v.kind \in {"True", "dict", "cmdlist", "subdict"}
    \/ v.kind = "str" /\ v.str # ""
    \/ v.kind = "list" /\ v.list # <<>>

\* isinstance(v, dict)
IsDict(v) == v.kind \in {"dict", "subdict"}

\* A value that is a node of the tree (a dict with the tree's keys).
IsNode(v) == v.kind = "dict"

\* ------------------------------------------------------------------------
\* Command strings, kept as their parts: "[<sel>=<id>] <verb> <word> <nums>"
\* (sel "" for a command without selector, such as "workspace <name>")
\* ------------------------------------------------------------------------

Cmd(sel, id, verb, word, nums) ==
    [sel |-> sel, id |-> id, verb |-> verb, word |-> word, nums |-> nums]

NoCmd == Cmd("", 0, "", "", <<>>)

\* is_xwayland_view
is_xwayland_view(view) == view.shell = "xwayland"

\* The selector the operations that look at the view's shell build:
\* f"[id={view_id}]" for XWayland, f"[con_id={view_id}]" otherwise.
selector_of(view) == IF is_xwayland_view(view) THEN "id" ELSE "con_id"

\* ------------------------------------------------------------------------
\* State
\* ------------------------------------------------------------------------

VARIABLES
    \* --- byte level (SpecFrame)
    wire,        \* bytes the peer has written and the client has not read
    peerClosed,  \* the peer has closed its end of the stream
    frames,      \* history: the frames written to the stream, in order
    rd,          \* history: bytes read from the stream so far
    rpc,         \* where _recv is: "idle", "header", "payload"
    buffer,      \* _recv's buffer
    hdr,         \* _recv's magic, length, msg_type (line 60)
    rret,        \* what the last _recv returned or raised
    startAt,     \* history: rd when the current/last _recv was called
    split,       \* history: a read of this call returned less than asked
    ncalls,      \* history: completed _recv calls, capped
    \* --- message level (Spec)
    mtree,       \* the manager's tree
    outQ,        \* request frames sent and not yet taken by the manager
    inQ,         \* replies written by the manager and not yet read
    mclosed,     \* the manager has closed the connection
    pc,          \* where the client is: "idle", or a step of an operation
    rstack,      \* where the operations in progress continue after a call
    loc,         \* arguments and locals of the operation in progress
    tree,        \* what the last get_tree returned
    res,         \* what the last called operation returned to its caller
    ret,         \* what the last operation returned to the user, or raised
    callSent,    \* history: the frames this operation has sent
    fetches      \* history: what this operation has received

frameVars ==
    <<wire, peerClosed, frames, rd, rpc, buffer, hdr, rret, startAt, split,
      ncalls>>

msgVars ==
    <<mtree, outQ, inQ, mclosed, pc, rstack, loc, tree, res, ret, callSent,
      fetches>>

vars == <<frameVars, msgVars>>

\* ------------------------------------------------------------------------
\* SpecFrame: inputs
\* ------------------------------------------------------------------------

\* Payload strings passed to _send: "", "1", " 1", "\"é\"" (3 characters,
\* 4 bytes) and "1 1" (not JSON).
SendPayloads ==
    { <<>>, <<49>>, <<32, 49>>, <<34, 233, 34>>, <<49, 32, 49>> }

SendTypes == {RUN_COMMAND, GET_TREE}

\* Payloads of the frames the peer writes itself: b"11", and a byte that
\* is not UTF-8.
PeerPayloads == { <<49, 49>>, <<255>> }

\* A header whose magic is not the literal.
BadMagic == <<105, 51, 45, 105, 112, 120>>

NoHdr == [magic |-> <<>>, length |-> 0, msg_type |-> 0]

InitFrameVars ==
    /\ wire = <<>>
    /\ peerClosed = FALSE
    /\ frames = <<>>
    /\ rd = 0
    /\ rpc = "idle"
    /\ buffer = <<>>
    /\ hdr = NoHdr
    /\ rret = NoRet
    /\ startAt = 0
    /\ split = FALSE
    /\ ncalls = 0

\* ------------------------------------------------------------------------
\* SpecFrame: _send, on a connection whose peer echoes what it is sent
\* ------------------------------------------------------------------------

\* A _send that packs the number of characters of the payload.
send_bytes_charlen(msg_type, payload) ==
    pack(Magic, Len(payload), msg_type) \o utf8_encode(payload)

\* The bytes _send hands to sock.sendall.
send_bytes(msg_type, payload) ==
    LET payload_bytes == utf8_encode(payload)
        header == pack(Magic, Len(payload_bytes), msg_type)
    IN  header \o payload_bytes

FrameRec(origin, magic, msg_type, payload_bytes, text, size) ==
    [ origin |-> origin, magic |-> magic, msg_type |-> msg_type,
      payload |-> payload_bytes, text |-> text, size |-> size ]

SendEcho(msg_type, payload) ==
    /\ ~peerClosed
    /\ Len(frames) < MaxFrames
    /\ wire' = wire \o send_bytes(msg_type, payload)
    /\ frames' = Append(frames,
          FrameRec("send", Magic, msg_type, utf8_encode(payload), payload,
                   HeaderLen + Len(utf8_encode(payload))))
    /\ UNCHANGED <<peerClosed, rd, rpc, buffer, hdr, rret, startAt, split,
                   ncalls>>
    /\ UNCHANGED msgVars

\* The peer writes a frame of its own, whole, or a proper prefix of it
\* and then closes the stream.
PeerWrite(magic, payload_bytes, cut) ==
    LET bytes == pack(magic, Len(payload_bytes), GET_TREE) \o payload_bytes
    IN  /\ ~peerClosed
        /\ Len(frames) < MaxFrames
        /\ cut \in 0..Len(bytes)
        /\ wire' = wire \o Take(bytes, cut)
        /\ peerClosed' = (cut < Len(bytes))
        /\ frames' = Append(frames,
              FrameRec("peer", magic, GET_TREE, payload_bytes, <<>>, cut))
        /\ UNCHANGED <<rd, rpc, buffer, hdr, rret, startAt, split, ncalls>>
        /\ UNCHANGED msgVars

PeerClose ==
    /\ ~peerClosed
    /\ peerClosed' = TRUE
    /\ UNCHANGED <<wire, frames, rd, rpc, buffer, hdr, rret, startAt, split,
                   ncalls>>
    /\ UNCHANGED msgVars

\* ------------------------------------------------------------------------
\* SpecFrame: _recv
\* ------------------------------------------------------------------------

\* How many bytes sock.recv(n) may return: at least one, at most n, at most
\* what has arrived.  (None arrived and the peer closed: b"", below.)
ChunkSizes(n) == 1..Min(n, Len(wire))

\* The argument of sock.recv in the header loop (line 56).
header_want(buf) == HeaderLen - Len(buf)

\* A payload loop that asks for the whole payload at every read.
payload_want_whole(buf, length) == length

\* The argument of sock.recv in the payload loop (line 64).
payload_want(buf, length) == length + HeaderLen - Len(buf)

\* An end-of-stream handler that decodes what has arrived.
on_eof_partial(buf) == loads(Drop(buf, HeaderLen))

\* `if not chunk: return None` (lines 57-58 and 65-66).
on_eof(buf) == RetNone

\* Lines 69-73, with the whole frame in buf.
decode_payload(buf, length) == loads(SubSeq(buf, HeaderLen + 1, HeaderLen + length))

Return(r) ==
    /\ rpc' = "idle"
    /\ rret' = r
    /\ ncalls' = Min(ncalls + 1, MaxFrames + 1)

\* `buffer = b""`
RecvCall ==
    /\ rpc = "idle"
    /\ rpc' = "header"
    /\ buffer' = <<>>
    /\ hdr' = NoHdr
    /\ rret' = NoRet
    /\ startAt' = rd
    /\ split' = FALSE
    /\ UNCHANGED <<wire, peerClosed, frames, rd, ncalls>>
    /\ UNCHANGED msgVars

\* A check that compares the first five bytes of the magic only.
magic_differs_in_prefix(magic) == Take(magic, 5) # Take(Magic, 5)

\* `if magic != b"i3-ipc"` (line 61).
magic_differs(magic) == magic # Magic

\* One iteration of `while len(buffer) < 14`, and, once the header is
\* whole, lines 60-62 and whatever follows without another read.
RecvHeader ==
    /\ rpc = "header"
    /\ \/ /\ wire = <<>> /\ peerClosed          \* chunk == b""
          /\ Return(on_eof(buffer))
          /\ UNCHANGED <<wire, rd, buffer, hdr, split>>
       \/ \E k \in ChunkSizes(header_want(buffer)) :
            LET buf == buffer \o Take(wire, k)
                h == unpack(buf)
            IN  /\ wire' = Drop(wire, k)
                /\ rd' = rd + k
                /\ split' = (split \/ k < header_want(buffer))
                /\ buffer' = buf
                /\ IF Len(buf) < HeaderLen
                   THEN UNCHANGED <<rpc, hdr, rret, ncalls>>
                   ELSE /\ hdr' = h
                        /\ IF magic_differs(h.magic)
                           THEN Return(RetValueError)
                           ELSE IF Len(buf) < HeaderLen + h.length
                           THEN /\ rpc' = "payload"
                                /\ UNCHANGED <<rret, ncalls>>
                           ELSE Return(decode_payload(buf, h.length))
    /\ UNCHANGED <<peerClosed, frames, startAt>>
    /\ UNCHANGED msgVars

\* One iteration of `while len(buffer) < 14 + length`, and lines 69-73 once
\* the payload is whole.
RecvPayload ==
    /\ rpc = "payload"
    /\ \/ /\ wire = <<>> /\ peerClosed          \* chunk == b""
          /\ Return(on_eof(buffer))
          /\ UNCHANGED <<wire, rd, buffer, split>>
       \/ \E k \in ChunkSizes(payload_want(buffer, hdr.length)) :
            LET buf == buffer \o Take(wire, k)
            IN  /\ wire' = Drop(wire, k)
                /\ rd' = rd + k
                /\ split' = (split \/ k < payload_want(buffer, hdr.length))
                /\ buffer' = buf
                /\ IF Len(buf) < HeaderLen + hdr.length
                   THEN UNCHANGED <<rpc, rret, ncalls>>
                   ELSE Return(decode_payload(buf, hdr.length))
    /\ UNCHANGED <<peerClosed, frames, hdr, startAt>>
    /\ UNCHANGED msgVars

NextFrame ==
    \/ \E t \in SendTypes, p \in SendPayloads : SendEcho(t, p)
    \/ \E m \in {Magic, BadMagic}, p \in PeerPayloads,
          cut \in 0..(HeaderLen + 2) : PeerWrite(m, p, cut)
    \/ PeerClose
    \/ RecvCall
    \/ RecvHeader
    \/ RecvPayload

\* ------------------------------------------------------------------------
\* Spec: the connection at the message level
\* ------------------------------------------------------------------------

\* A request frame as _send writes it: the type code and the payload, a
\* command string (type 0), a list of event names (type 2) or "" (type 4).
\* tag is history: "cur" on the request the client sent last, "old" on
\* every earlier one.
Request(msg_type, cmd, names) ==
    [type |-> msg_type, cmd |-> cmd, names |-> names, tag |-> "cur"]

\* A reply of the manager: the tree (kind "dict"), the list of results of
\* a run-command ("cmdlist") or the object answering a subscribe
\* ("subdict").  It carries the tag of the request it answers.
Reply(kind, node, tag) == [kind |-> kind, node |-> node, tag |-> tag]

Old(q) == [i \in 1..Len(q) |-> [q[i] EXCEPT !.tag = "old"]]

\* What _recv returns for a reply: json.loads of its payload.
ReplyVal(r) == IF r.kind = "dict" THEN Dict(r.node) ELSE Val(r.kind)

\* The floats passed as opacity, in tenths, and NaN.
Opacity(tenths) == [nan |-> FALSE, tenths |-> tenths]

NaN == [nan |-> TRUE, tenths |-> 0]

\* The events argument of watch: None, or a list of names.
Events(names) == [none |-> FALSE, names |-> names]

NoEvents == [none |-> TRUE, names |-> <<>>]

\* The arguments and local variables of the operation in progress (or the
\* last one).  catching: the operation is inside a `try` whose `except
\* Exception` returns False.  History: start_visible, a show_desktop was
\* called while every view of the output's current workspace was out of
\* the scratchpad; before, the output of the call before this one if that
\* call was such a show_desktop and returned (0 otherwise); visits, where
\* the focus was at the start of each of the consecutive calls of
\* go_next_workspace_with_views that end with this one.
NoLoc ==
    [ op |-> "", view_id |-> 0, max_retries |-> 0, attempt |-> 0,
      output_id |-> 0, has_output |-> FALSE, key |-> "",
      workspace_info |-> "", workspace_node |-> NoNode, views |-> <<>>,
      all_in_scratchpad |-> FALSE, i |-> 0, opacity |-> Opacity(0),
      state |-> FALSE, events |-> NoEvents, x |-> 0, y |-> 0, w |-> 0,
      h |-> 0, selector |-> "", workspace_name |-> "", catching |-> FALSE,
      names |-> <<>>, start_visible |-> FALSE, before |-> 0,
      visits |-> <<>> ]

Args(op) == [NoLoc EXCEPT !.op = op]

NoVal == Val("none")

\* A tree of the manager.  Output 2 "DP-1" shows workspace "1" with views
\* 6 and 7 and also holds the empty workspace "4" and workspace "5" with
\* views 12 and 14; output 3 "DP-2" holds the empty workspace "2" and
\* workspace "3" with view 8; output 15 "DP-3" has nothing but the
\* empty workspace "9".  The focus is on view 7 ("view"), on workspace
\* "9" ("empty"), or on no node of the tree ("none"), as when a surface
\* outside the tree has it; output 3 shows workspace "2" then, and
\* workspace "3" otherwise.
\* Views 8 and 14 are XWayland views, the others are not.  The views
\* differ in their pid: 5 (the name of a workspace), absent, 0, 77 (the
\* name of no workspace) and a string.  Workspace "1" has the floating
\* view 17 besides, and workspace "5" a floating container whose id is 0
\* and that holds view 18.
Tree(sp6, sp7, focus) ==
    Root(<< Output(2, "DP-1", "1",
               << WithRect(
                     WithFloating(
                        Workspace(4, "1",
                           << WithPid(View(6, "xdg_shell", sp6), Pid(5)),
                              [View(7, "xdg_shell", sp7) EXCEPT
                                  !.focused = (focus = "view")] >>),
                        << Floating(17, <<>>) >>),
                     Rect(800, 600)),
                  Workspace(11, "4", <<>>),
                  WithFloating(
                     Workspace(13, "5",
                        << WithPid(View(12, "xdg_shell", "none"), Pid(0)),
                           WithPid(View(14, "xwayland", "none"), Pid(77)) >>),
                     << Floating(0, << View(18, "xdg_shell", "none") >>) >>)
               >>),
            Output(3, "DP-2", IF focus = "none" THEN "2" ELSE "3",
               << Workspace(5, "2", <<>>),
                  Workspace(10, "3",
                     << WithPid(View(8, "xwayland", "none"), PidStr) >>) >>),
            Output(15, "DP-3", "9",
               << [Workspace(16, "9", <<>>) EXCEPT
                      !.focused = (focus = "empty")] >>)
         >>)

\* The trees the manager starts with: with the focus on view 7, views 6
\* and 7 both in the scratchpad, or view 7 alone in it; with both out of
\* it, the focus on the empty workspace, or no focus and workspace "2"
\* on output 3.
Trees ==
    { Tree("fresh", "fresh", "view"), Tree("none", "fresh", "view"),
      Tree("none", "none", "empty"), Tree("none", "none", "none") }

InitMsg ==
    /\ mtree \in Trees
    /\ outQ = <<>>
    /\ inQ = <<>>
    /\ mclosed = FALSE
    /\ pc = "idle"
    /\ rstack = <<>>
    /\ loc = NoLoc
    /\ tree = None
    /\ res = None
    /\ ret = NoVal
    /\ callSent = <<>>
    /\ fetches = <<>>

\* The message level at rest, for the specification of the byte level.
MsgAtRest ==
    /\ mtree = NoNode
    /\ outQ = <<>>
    /\ inQ = <<>>
    /\ mclosed = FALSE
    /\ pc = "idle"
    /\ rstack = <<>>
    /\ loc = NoLoc
    /\ tree = None
    /\ res = None
    /\ ret = NoVal
    /\ callSent = <<>>
    /\ fetches = <<>>

Init == InitFrameVars /\ InitMsg

InitFrame == InitFrameVars /\ MsgAtRest

\* ------------------------------------------------------------------------
\* Spec: the manager
\* ------------------------------------------------------------------------

\* The criteria of a command match a view: "[id=..]" selects a view of the
\* XWayland family, "[con_id=..]" a view of the other family.
matches(view, cmd) ==
    /\ IsViewNode(view)
    /\ view.id = cmd.id
    /\ cmd.sel = (IF view.shell = "xwayland" THEN "id" ELSE "con_id")

\* "<sel> move scratchpad" and "<sel> scratchpad show": the views the
\* criteria match enter or leave the scratchpad.
RECURSIVE set_scratchpad(_, _, _)
set_scratchpad(node, cmd, state) ==
    [node EXCEPT
        !.scratchpad_state = IF matches(node, cmd) THEN state ELSE @,
        !.nodes = [i \in 1..Len(node.nodes) |->
                      set_scratchpad(node.nodes[i], cmd, state)],
        !.floating_nodes = [i \in 1..Len(node.floating_nodes) |->
                      set_scratchpad(node.floating_nodes[i], cmd, state)]]

\* The focus arrives on a workspace: on its first view, or on the
\* workspace itself when it has none.
focus_in_workspace(ws, here) ==
    [ws EXCEPT
        !.focused = here /\ ws.nodes = <<>>,
        !.nodes = [v \in 1..Len(ws.nodes) |->
                      [ws.nodes[v] EXCEPT !.focused = here /\ v = 1]]]

focus_in_output(out, name) ==
    LET has == \E i \in 1..Len(out.nodes) :
                   out.nodes[i].type = "workspace" /\ out.nodes[i].name = name
    IN  [out EXCEPT
            !.current_workspace = IF has THEN name ELSE @,
            !.focused = FALSE,
            !.nodes = [w \in 1..Len(out.nodes) |->
                          focus_in_workspace(out.nodes[w],
                              has /\ out.nodes[w].type = "workspace"
                                  /\ out.nodes[w].name = name)]]

\* "workspace <name>" for the name of a workspace of the tree: its output
\* shows it and the focus moves to it.
focus_workspace(root, name) ==
    IF ~\E n \in NodesOf(root) : n.type = "workspace" /\ n.name = name
    THEN root
    ELSE [root EXCEPT
             !.nodes = [o \in 1..Len(root.nodes) |->
                           focus_in_output(root.nodes[o], name)]]

\* What a command does to the tree, as far as the model follows it: the
\* scratchpad membership of views and the focused workspace.
apply_command(root, cmd) ==
    IF cmd.verb = "move scratchpad" THEN set_scratchpad(root, cmd, "fresh")
    ELSE IF cmd.verb = "scratchpad show" THEN set_scratchpad(root, cmd, "none")
    ELSE IF cmd.verb = "workspace" /\ cmd.sel = ""
    THEN focus_workspace(root, cmd.word)
    ELSE root

\* The manager takes the oldest request, carries it out and answers it:
\* every request frame gets one reply, the run-command (type 0) included.
manager_reply ==
    /\ ~mclosed
    /\ outQ # <<>>
    /\ LET m == Head(outQ)
           kind == IF m.type = GET_TREE THEN "dict"
                   ELSE IF m.type = SUBSCRIBE THEN "subdict"
                   ELSE "cmdlist"
           node == IF m.type = GET_TREE THEN mtree ELSE NoNode
       IN  /\ inQ' = Append(inQ, Reply(kind, node, m.tag))
           /\ mtree' = IF m.type = RUN_COMMAND
                       THEN apply_command(mtree, m.cmd) ELSE mtree
    /\ outQ' = Tail(outQ)
    /\ UNCHANGED <<mclosed, pc, rstack, loc, tree, res, ret, callSent,
                   fetches>>
    /\ UNCHANGED frameVars

\* The manager changes its tree on its own, as when the user switches
\* output 3 to workspace "2" at the manager and opens a surface outside
\* the tree that takes the focus from workspace "9".  The change is
\* followed where an operation fetches more than once and uses the
\* fetches together: while show_desktop is running.
manager_switch ==
    /\ ~mclosed
    /\ mtree = Tree("none", "none", "empty")
    /\ loc.op = "show_desktop"
    /\ pc \notin {"idle", "done"}
    /\ mtree' = Tree("none", "none", "none")
    /\ UNCHANGED <<outQ, inQ, mclosed, pc, rstack, loc, tree, res, ret,
                   callSent, fetches>>
    /\ UNCHANGED frameVars

\* The manager closes the connection; what it has written stays readable.
manager_close ==
    /\ ~mclosed
    /\ mclosed' = TRUE
    /\ UNCHANGED <<mtree, outQ, inQ, pc, rstack, loc, tree, res, ret,
                   callSent, fetches>>
    /\ UNCHANGED frameVars

\* ------------------------------------------------------------------------
\* Spec: _send and _recv as the operations use them
\* ------------------------------------------------------------------------

\* sock.sendall succeeded: the frame is on its way.
Sent(msg_type, cmd, names) ==
    /\ outQ' = Append(Old(outQ), Request(msg_type, cmd, names))
    /\ inQ' = Old(inQ)
    /\ callSent' = Append(callSent, [type |-> msg_type, cmd |-> cmd,
                                     names |-> names])

NotSent == UNCHANGED <<outQ, inQ, callSent>>

\* _recv has something to return: a reply, or None at the end of the
\* stream.  Otherwise it blocks.
CanRecv == inQ # <<>> \/ mclosed

Received == IF inQ # <<>> THEN ReplyVal(Head(inQ)) ELSE None

ReceivedTag == IF inQ # <<>> THEN Head(inQ).tag ELSE "eof"

Consumed == inQ' = (IF inQ # <<>> THEN Tail(inQ) ELSE inQ)

\* An operation may be called when none is running.  The model lets the
\* manager catch up between two calls (within a call it runs at any speed)
\* and stops calling when more than MaxBacklog replies are unread.
Idle == pc = "idle" /\ outQ = <<>> /\ Len(inQ) <= MaxBacklog

\* The call of an operation: its arguments, nothing sent or fetched yet.
Called(args) ==
    /\ loc' = [args EXCEPT
                  !.before = IF args.op = "show_desktop"
                             THEN loc.before ELSE 0]
    /\ callSent' = <<>>
    /\ fetches' = <<>>

\* The operation returns v (or raises, v = Raise(..)).
Finish(v) ==
    /\ pc' = "done"
    /\ rstack' = <<>>
    /\ ret' = v

\* An operation that is one _send of a command: it returns `ok` when the
\* send succeeded and `failed` when sendall raised.
OneCommand(args, cmd, ok, failed) ==
    /\ loc' = args
    /\ fetches' = <<>>
    /\ pc' = "done"
    /\ IF mclosed
       THEN /\ ret' = failed
            /\ callSent' = <<>>
            /\ UNCHANGED <<outQ, inQ>>
       ELSE /\ ret' = ok
            /\ outQ' = Append(Old(outQ), Request(RUN_COMMAND, cmd, <<>>))
            /\ inQ' = Old(inQ)
            /\ callSent' = <<[type |-> RUN_COMMAND, cmd |-> cmd,
                              names |-> <<>>]>>
    /\ UNCHANGED <<mtree, mclosed, rstack, tree, res>>
    /\ UNCHANGED frameVars

BrokenPipe == Raise("BrokenPipeError")

\* The caller is done with what the operation returned: its arguments,
\* locals and result go out of scope.
forget ==
    /\ pc = "done"
    /\ pc' = "idle"
    /\ loc' = [NoLoc EXCEPT
                  !.before = IF /\ loc.op = "show_desktop"
                                /\ loc.start_visible
                                /\ ret.kind # "raise"
                             THEN loc.output_id ELSE 0,
                  !.visits = IF /\ loc.op = "go_next_workspace_with_views"
                                /\ ret.kind # "raise"
                             THEN loc.visits ELSE <<>>]
    /\ tree' = None
    /\ res' = None
    /\ ret' = NoVal
    /\ callSent' = <<>>
    /\ fetches' = <<>>
    /\ outQ' = Old(outQ)
    /\ inQ' = Old(inQ)
    /\ UNCHANGED <<mtree, mclosed, rstack>>
    /\ UNCHANGED frameVars

\* ------------------------------------------------------------------------
\* Spec: get_tree and run_command
\* ------------------------------------------------------------------------

\* get_tree(), called by the user.
get_tree ==
    /\ Idle
    /\ Called(Args("get_tree"))
    /\ pc' = "gt_send"
    /\ rstack' = <<"gt_return">>
    /\ ret' = NoVal
    /\ UNCHANGED <<mtree, outQ, inQ, mclosed, tree, res>>
    /\ UNCHANGED frameVars

\* self._send(GET_TREE); the exception of sendall goes up to the user, or
\* to the try block the call is in, whose except clause returns False.
get_tree_send ==
    /\ pc = "gt_send"
    /\ IF mclosed
       THEN Finish(IF loc.catching THEN False ELSE BrokenPipe) /\ NotSent
       ELSE /\ Sent(GET_TREE, NoCmd, <<>>)
            /\ pc' = "gt_recv"
            /\ UNCHANGED <<rstack, ret>>
    /\ UNCHANGED <<mtree, mclosed, loc, tree, res, fetches>>
    /\ UNCHANGED frameVars

\* return self._recv()
get_tree_recv ==
    /\ pc = "gt_recv"
    /\ CanRecv
    /\ tree' = Received
    /\ Consumed
    /\ fetches' = Append(fetches, [val |-> Received, tag |-> ReceivedTag])
    /\ pc' = Head(rstack)
    /\ rstack' = Tail(rstack)
    /\ UNCHANGED <<mtree, outQ, mclosed, loc, res, ret, callSent>>
    /\ UNCHANGED frameVars

get_tree_return ==
    /\ pc = "gt_return"
    /\ Finish(tree)
    /\ UNCHANGED <<mtree, outQ, inQ, mclosed, loc, tree, res, callSent,
                   fetches>>
    /\ UNCHANGED frameVars

\* run_command(cmd): self._send(0, cmd), and no _recv.
run_command(cmd) ==
    /\ Idle
    /\ OneCommand(Args("run_command"), cmd, None, BrokenPipe)

\* ------------------------------------------------------------------------
\* Spec: the operations that send one command to a view
\* ------------------------------------------------------------------------

\* close_view: f"[id={view_id}] kill"; an exception of _send is caught.
close_view(view_id) ==
    /\ Idle
    /\ OneCommand([Args("close_view") EXCEPT !.view_id = view_id],
                  Cmd("id", view_id, "kill", "", <<>>), True, False)

\* `if not (0.0 <= opacity <= 1.0)`: false for NaN as for a value outside.
opacity_in_range(opacity) ==
    ~opacity.nan /\ 0 <= opacity.tenths /\ opacity.tenths <= 10

\* set_view_alpha: the check, then f"[id={view_id}] opacity {opacity}".
set_view_alpha(view_id, opacity) ==
    LET args == [Args("set_view_alpha") EXCEPT
                    !.view_id = view_id, !.opacity = opacity]
    IN  /\ Idle
        /\ IF ~opacity_in_range(opacity)
           THEN /\ Called(args)
                /\ ret' = Raise("ValueError")
                /\ pc' = "done"
                /\ UNCHANGED <<mtree, outQ, inQ, mclosed, rstack, tree, res>>
                /\ UNCHANGED frameVars
           ELSE OneCommand(args,
                    Cmd("id", view_id, "opacity", "", <<opacity.tenths>>),
                    None, BrokenPipe)

Action(state) == IF state THEN "enable" ELSE "disable"

\* set_view_minimized: f"[id={view_id}] minimize {action}"
set_view_minimized(view_id, state) ==
    /\ Idle
    /\ OneCommand([Args("set_view_minimized") EXCEPT
                      !.view_id = view_id, !.state = state],
                  Cmd("id", view_id, "minimize", Action(state), <<>>),
                  None, BrokenPipe)

\* set_view_maximized: f"[id={view_id}] maximize {action}"
set_view_maximized(view_id, state) ==
    /\ Idle
    /\ OneCommand([Args("set_view_maximized") EXCEPT
                      !.view_id = view_id, !.state = state],
                  Cmd("id", view_id, "maximize", Action(state), <<>>),
                  None, BrokenPipe)

\* set_view_fullscreen: f"[id={view_id}] fullscreen {action}"
set_view_fullscreen(view_id, state) ==
    /\ Idle
    /\ OneCommand([Args("set_view_fullscreen") EXCEPT
                      !.view_id = view_id, !.state = state],
                  Cmd("id", view_id, "fullscreen", Action(state), <<>>),
                  None, BrokenPipe)

\* set_view_focus: f"[id={view_id}] focus"; an exception of _send is
\* caught and the operation returns None all the same.
set_view_focus(view_id) ==
    /\ Idle
    /\ OneCommand([Args("set_view_focus") EXCEPT !.view_id = view_id],
                  Cmd("id", view_id, "focus", "", <<>>), None, None)

\* ------------------------------------------------------------------------
\* Spec: get_view
\* ------------------------------------------------------------------------

\* get_view's traverse(node), on a node of the tree: the first node with
\* the id in pre-order, children in nodes + floating_nodes order; a result
\* counts (`if result:`) when it is a dict.
RECURSIVE traverse_id(_, _), traverse_id_children(_, _)
traverse_id(node, view_id) ==
    IF node.id = view_id THEN Dict(node)
    ELSE traverse_id_children(Children(node), view_id)

traverse_id_children(children, view_id) ==
    IF children = <<>> THEN None
    ELSE LET result == traverse_id(Head(children), view_id)
         IN  IF Truthy(result) THEN result
             ELSE traverse_id_children(Tail(children), view_id)

\* traverse(tree) on whatever get_tree returned: a reply that is no dict
\* gives None, and so does a dict without "id" and without children.
traverse_view(v, view_id) ==
    IF IsNode(v) THEN traverse_id(v.node, view_id) ELSE None

\* A loop that runs once more than asked.
more_attempts_off_by_one(attempt, max_retries) == attempt <= max_retries

\* `for attempt in range(max_retries)`: is there another iteration after
\* `attempt` of them.
more_attempts(attempt, max_retries) == attempt < max_retries

\* The call of get_view from an operation: the loop starts, and the result
\* goes to `label`.
CallGetView(label) ==
    /\ pc' = "gv_loop"
    /\ rstack' = <<label>> \o rstack

\* The default of max_retries.
DefaultMaxRetries == 10

\* get_view(view_id, max_retries), called by the user.
get_view(view_id, max_retries) ==
    /\ Idle
    /\ Called([Args("get_view") EXCEPT
                  !.view_id = view_id, !.max_retries = max_retries])
    /\ pc' = "gv_loop"
    /\ rstack' = <<"return_res">>
    /\ ret' = NoVal
    /\ UNCHANGED <<mtree, outQ, inQ, mclosed, tree, res>>
    /\ UNCHANGED frameVars

\* The head of the for loop: the next iteration calls get_tree, the end of
\* the loop returns None.
get_view_next ==
    IF more_attempts(loc.attempt, loc.max_retries)
    THEN /\ loc' = [loc EXCEPT !.attempt = loc.attempt + 1]
         /\ pc' = "gt_send"
         /\ rstack' = <<"gv_check">> \o rstack
         /\ UNCHANGED res
    ELSE /\ res' = None
         /\ pc' = Head(rstack)
         /\ rstack' = Tail(rstack)
         /\ UNCHANGED loc

\* The loop is entered.
get_view_loop ==
    /\ pc = "gv_loop"
    /\ get_view_next
    /\ UNCHANGED <<mtree, outQ, inQ, mclosed, tree, ret, callSent, fetches>>
    /\ UNCHANGED frameVars

\* The body of the loop after get_tree: `if not tree: continue`, then the
\* search, `if result: return result`; without a result the loop goes on.
get_view_check ==
    /\ pc = "gv_check"
    /\ LET result == traverse_view(tree, loc.view_id)
       IN  IF Truthy(tree) /\ Truthy(result)
           THEN /\ res' = result
                /\ pc' = Head(rstack)
                /\ rstack' = Tail(rstack)
                /\ UNCHANGED loc
           ELSE get_view_next
    /\ UNCHANGED <<mtree, outQ, inQ, mclosed, tree, ret, callSent, fetches>>
    /\ UNCHANGED frameVars

\* The value a called operation left in res is what the user's call
\* returns.
return_res ==
    /\ pc = "return_res"
    /\ Finish(res)
    /\ UNCHANGED <<mtree, outQ, inQ, mclosed, loc, tree, res, callSent,
                   fetches>>
    /\ UNCHANGED frameVars

\* ------------------------------------------------------------------------
\* Spec: get_output
\* ------------------------------------------------------------------------

\* [node for node in tree.get("nodes", []) if node.get("type") == "output"]
outputs_of(node) == SelectSeq(node.nodes, LAMBDA n : n.type = "output")

\* The first output with the id, or none.
RECURSIVE first_with_id(_, _)
first_with_id(outputs, output_id) ==
    IF outputs = <<>> THEN None
    ELSE IF Head(outputs).id = output_id THEN Dict(Head(outputs))
    ELSE first_with_id(Tail(outputs), output_id)

\* output.get(key) for the keys the callers pass.
get_key(output, key) ==
    IF key = "current_workspace"
    THEN IF output.current_workspace = "" THEN None
         ELSE Str(output.current_workspace)
    ELSE List(output.nodes)

\* get_output after its get_tree: the value it returns, or the
\* AttributeError of `.get` on a reply that is a list.
get_output_value(v, output_id, key) ==
    IF ~Truthy(v) THEN None
    ELSE IF v.kind = "cmdlist" THEN Raise("AttributeError")
    ELSE IF v.kind = "subdict" THEN None
    ELSE LET found == first_with_id(outputs_of(v.node), output_id)
         IN  IF ~Truthy(found) THEN None
             ELSE IF key = "" THEN found
             ELSE get_key(found.node, key)

\* The call of get_output from an operation: it begins with get_tree, and
\* the result goes to `label`.
CallGetOutput(label) ==
    /\ pc' = "gt_send"
    /\ rstack' = <<"go_check", label>> \o rstack

\* get_output(output_id, key), called by the user (key "" for key=None).
get_output(output_id, key) ==
    /\ Idle
    /\ Called([Args("get_output") EXCEPT
                  !.output_id = output_id, !.key = key])
    /\ CallGetOutput("return_res")
    /\ ret' = NoVal
    /\ UNCHANGED <<mtree, outQ, inQ, mclosed, tree, res>>
    /\ UNCHANGED frameVars

get_output_check ==
    /\ pc = "go_check"
    /\ LET v == get_output_value(tree, loc.output_id, loc.key)
       IN  IF v.kind = "raise"
           THEN Finish(v) /\ UNCHANGED res
           ELSE /\ res' = v
                /\ pc' = Head(rstack)
                /\ rstack' = Tail(rstack)
                /\ UNCHANGED ret
    /\ UNCHANGED <<mtree, outQ, inQ, mclosed, loc, tree, callSent, fetches>>
    /\ UNCHANGED frameVars

\* ------------------------------------------------------------------------
\* Spec: show_desktop
\* ------------------------------------------------------------------------

\* Step 3: the first workspace node of output_nodes with the name.
RECURSIVE find_workspace(_, _)
find_workspace(output_nodes, name) ==
    IF output_nodes = <<>> THEN None
    ELSE IF Head(output_nodes).type = "workspace"
            /\ Head(output_nodes).name = name
    THEN Dict(Head(output_nodes))
    ELSE find_workspace(Tail(output_nodes), name)

\* Step 4: the views among workspace_node.get("nodes", []).
workspace_views(workspace_node) == SelectSeq(workspace_node.nodes, IsViewNode)

\* A toggle that restores as soon as one view is in the scratchpad.
some_in_scratchpad(views) ==
    \E i \in 1..Len(views) : views[i].scratchpad_state = "fresh"

\* Step 5: all(view.get("scratchpad_state") == "fresh" for view in views)
all_in_scratchpad(views) ==
    \A i \in 1..Len(views) : views[i].scratchpad_state = "fresh"

\* Step 6: the command for one view.
show_desktop_command(view, all_fresh) ==
    Cmd(selector_of(view), view.id,
        IF all_fresh THEN "scratchpad show" ELSE "move scratchpad", "", <<>>)

\* History: the immediate views of the current workspace of the output in
\* the manager's tree.
shown_views(root, output_id) ==
    LET o == get_output_value(Dict(root), output_id, "")
        w == IF Truthy(o)
             THEN find_workspace(o.node.nodes, o.node.current_workspace)
             ELSE None
    IN  IF Truthy(w) THEN workspace_views(w.node) ELSE <<>>

all_visible(views) ==
    /\ views # <<>>
    /\ \A i \in 1..Len(views) : views[i].scratchpad_state = "none"

\* show_desktop(output_id): step 1 begins.
show_desktop(output_id) ==
    /\ Idle
    /\ Called([Args("show_desktop") EXCEPT
                  !.output_id = output_id, !.key = "current_workspace",
                  !.start_visible =
                      all_visible(shown_views(mtree, output_id))])
    /\ CallGetOutput("sd_1")
    /\ ret' = NoVal
    /\ UNCHANGED <<mtree, outQ, inQ, mclosed, tree, res>>
    /\ UNCHANGED frameVars

\* Step 1 ends (`if not workspace_info: return`) and step 2 begins.
show_desktop_1 ==
    /\ pc = "sd_1"
    /\ IF ~Truthy(res)
       THEN Finish(None) /\ UNCHANGED loc
       ELSE /\ loc' = [loc EXCEPT !.workspace_info = res.str, !.key = "nodes"]
            /\ CallGetOutput("sd_2")
            /\ UNCHANGED ret
    /\ UNCHANGED <<mtree, outQ, inQ, mclosed, tree, res, callSent, fetches>>
    /\ UNCHANGED frameVars

\* Steps 2 to 5, after the second get_output.
show_desktop_2 ==
    /\ pc = "sd_2"
    /\ LET workspace_node ==
               IF res.kind = "list"
               THEN find_workspace(res.list, loc.workspace_info)
               ELSE None
           views == IF Truthy(workspace_node)
                    THEN workspace_views(workspace_node.node)
                    ELSE <<>>
       IN  IF views = <<>>
           THEN Finish(None) /\ UNCHANGED loc
           ELSE /\ loc' = [loc EXCEPT
                              !.workspace_node = workspace_node.node,
                              !.views = views,
                              !.all_in_scratchpad = all_in_scratchpad(views),
                              !.i = 1]
                /\ pc' = "sd_send"
                /\ UNCHANGED <<rstack, ret>>
    /\ UNCHANGED <<mtree, outQ, inQ, mclosed, tree, res, callSent, fetches>>
    /\ UNCHANGED frameVars

\* Step 6: one iteration of `for view in workspace_views`, or its end.
show_desktop_send ==
    /\ pc = "sd_send"
    /\ IF loc.i > Len(loc.views)
       THEN Finish(None) /\ NotSent /\ UNCHANGED loc
       ELSE IF mclosed
       THEN Finish(BrokenPipe) /\ NotSent /\ UNCHANGED loc
       ELSE /\ Sent(RUN_COMMAND,
                    show_desktop_command(loc.views[loc.i],
                                         loc.all_in_scratchpad), <<>>)
            /\ loc' = [loc EXCEPT !.i = loc.i + 1]
            /\ UNCHANGED <<pc, rstack, ret>>
    /\ UNCHANGED <<mtree, mclosed, tree, res, fetches>>
    /\ UNCHANGED frameVars

\* ------------------------------------------------------------------------
\* Spec: configure_view and move_view_to_workspace
\* ------------------------------------------------------------------------

\* A guard that lets every result of get_view through.
not_view_never(view) == FALSE

\* `if not view:` after get_view, the guard of `return False`.
not_view(view) == ~Truthy(view)

\* configure_view(view_id, x, y, w, h, output_id): get_view begins
\* (has_output is `output_id is not None`).
configure_view(view_id, x, y, w, h, has_output, output_id) ==
    /\ Idle
    /\ Called([Args("configure_view") EXCEPT
                  !.view_id = view_id, !.max_retries = DefaultMaxRetries,
                  !.x = x, !.y = y, !.w = w, !.h = h,
                  !.has_output = has_output, !.output_id = output_id])
    /\ pc' = "gv_loop"
    /\ rstack' = <<"cv_1">>
    /\ ret' = NoVal
    /\ UNCHANGED <<mtree, outQ, inQ, mclosed, tree, res>>
    /\ UNCHANGED frameVars

\* `if not view: return False`, then the selector.
configure_view_1 ==
    /\ pc = "cv_1"
    /\ IF not_view(res)
       THEN Finish(False) /\ UNCHANGED loc
       ELSE /\ loc' = [loc EXCEPT !.selector = selector_of(res.node)]
            /\ pc' = IF loc.has_output THEN "cv_output" ELSE "cv_floating"
            /\ UNCHANGED <<rstack, ret>>
    /\ UNCHANGED <<mtree, outQ, inQ, mclosed, tree, res, callSent, fetches>>
    /\ UNCHANGED frameVars

\* One _send inside the try block: the command goes out and the operation
\* moves to `next` ("" for `return True`), or sendall raises and the
\* except clause returns False.
TrySend(cmd, next) ==
    /\ IF mclosed
       THEN Finish(False) /\ NotSent
       ELSE /\ Sent(RUN_COMMAND, cmd, <<>>)
            /\ IF next = ""
               THEN Finish(True)
               ELSE pc' = next /\ UNCHANGED <<rstack, ret>>
    /\ UNCHANGED <<mtree, mclosed, loc, tree, res, fetches>>
    /\ UNCHANGED frameVars

\* f"{selector} move to output id {output_id}"
configure_view_output ==
    /\ pc = "cv_output"
    /\ TrySend(Cmd(loc.selector, loc.view_id, "move to output id", "",
                   <<loc.output_id>>), "cv_floating")

\* f"{selector} floating enable", then `if x > 0 or y > 0`
configure_view_floating ==
    /\ pc = "cv_floating"
    /\ TrySend(Cmd(loc.selector, loc.view_id, "floating", "enable", <<>>),
               IF loc.x > 0 \/ loc.y > 0 THEN "cv_position" ELSE "cv_resize")

\* f"{selector} move position {x} {y}"
configure_view_position ==
    /\ pc = "cv_position"
    /\ TrySend(Cmd(loc.selector, loc.view_id, "move position", "",
                   <<loc.x, loc.y>>), "cv_resize")

\* f"{selector} resize set {w} {h}", and `return True`
configure_view_resize ==
    /\ pc = "cv_resize"
    /\ TrySend(Cmd(loc.selector, loc.view_id, "resize set", "",
                   <<loc.w, loc.h>>), "")

\* move_view_to_workspace(view_id, workspace_name): get_view begins.
move_view_to_workspace(view_id, workspace_name) ==
    /\ Idle
    /\ Called([Args("move_view_to_workspace") EXCEPT
                  !.view_id = view_id, !.max_retries = DefaultMaxRetries,
                  !.workspace_name = workspace_name])
    /\ pc' = "gv_loop"
    /\ rstack' = <<"mv_1">>
    /\ ret' = NoVal
    /\ UNCHANGED <<mtree, outQ, inQ, mclosed, tree, res>>
    /\ UNCHANGED frameVars

\* `if not view: return False`, then the selector.
move_view_to_workspace_1 ==
    /\ pc = "mv_1"
    /\ IF not_view(res)
       THEN Finish(False) /\ UNCHANGED loc
       ELSE /\ loc' = [loc EXCEPT !.selector = selector_of(res.node)]
            /\ pc' = "mv_send"
            /\ UNCHANGED <<rstack, ret>>
    /\ UNCHANGED <<mtree, outQ, inQ, mclosed, tree, res, callSent, fetches>>
    /\ UNCHANGED frameVars

\* f"{selector} move workspace {workspace_name}", and `return True`
move_view_to_workspace_send ==
    /\ pc = "mv_send"
    /\ TrySend(Cmd(loc.selector, loc.view_id, "move workspace",
                   loc.workspace_name, <<>>), "")

\* ------------------------------------------------------------------------
\* Spec: watch
\* ------------------------------------------------------------------------

valid_events ==
    << "workspace", "window", "output", "mode", "barconfig_update",
       "binding", "shutdown", "tick", "bar_state_update", "input" >>

InList(e, l) == \E i \in 1..Len(l) : l[i] = e

\* A check that rejects only a list without any valid name.
invalid_if_none_valid(events) ==
    SelectSeq(events,
              LAMBDA e : \A i \in 1..Len(events) : ~InList(events[i], valid_events))

\* invalid = [e for e in events if e not in valid_events]
invalid(events) == SelectSeq(events, LAMBDA e : ~InList(e, valid_events))

\* watch(events): the validation; a bad name raises ValueError here.
watch(events) ==
    /\ Idle
    /\ Called([Args("watch") EXCEPT !.events = events])
    /\ IF ~events.none /\ invalid(events.names) # <<>>
       THEN /\ ret' = Raise("ValueError")
            /\ pc' = "done"
            /\ UNCHANGED rstack
       ELSE /\ ret' = NoVal
            /\ pc' = "w_send"
            /\ rstack' = <<>>
    /\ UNCHANGED <<mtree, outQ, inQ, mclosed, tree, res>>
    /\ UNCHANGED frameVars

\* payload = json.dumps(events); self._send(SUBSCRIBE, payload)
watch_send ==
    /\ pc = "w_send"
    /\ IF mclosed
       THEN Finish(BrokenPipe) /\ NotSent
       ELSE /\ Sent(SUBSCRIBE, NoCmd,
                    IF loc.events.none THEN valid_events ELSE loc.events.names)
            /\ pc' = "w_recv"
            /\ UNCHANGED <<rstack, ret>>
    /\ UNCHANGED <<mtree, mclosed, loc, tree, res, fetches>>
    /\ UNCHANGED frameVars

\* response = self._recv(), and the test of the response: only the reply
\* to a subscribe is a dict with "success".
watch_recv ==
    /\ pc = "w_recv"
    /\ CanRecv
    /\ Consumed
    /\ fetches' = Append(fetches, [val |-> Received, tag |-> ReceivedTag])
    /\ IF Received.kind = "subdict"
       THEN Finish(True)
       ELSE Finish(Raise("RuntimeError"))
    /\ UNCHANGED <<mtree, outQ, mclosed, loc, tree, res, callSent>>
    /\ UNCHANGED frameVars

\* ------------------------------------------------------------------------
\* Spec: get_focused_output and the queries of SwayUtils built on it
\* ------------------------------------------------------------------------

\* A value goes back to the operation that called.
Ret(v) ==
    /\ res' = v
    /\ pc' = Head(rstack)
    /\ rstack' = Tail(rstack)

\* A call of an operation that begins with get_tree: `labels` are the
\* steps that follow the fetch, the caller's continuation last.
Call(labels) ==
    /\ pc' = "gt_send"
    /\ rstack' = labels \o rstack

\* get_focused_output's find_focused_node: the first node in pre-order
\* with a true "focused".
RECURSIVE find_focused_node(_), find_focused_children(_)
find_focused_node(node) ==
    IF node.focused THEN Dict(node)
    ELSE find_focused_children(Children(node))

find_focused_children(children) ==
    IF children = <<>> THEN None
    ELSE LET result == find_focused_node(Head(children))
         IN  IF Truthy(result) THEN result
             ELSE find_focused_children(Tail(children))

\* focused_node.get("parent"): the nodes of a decoded reply are plain
\* dicts of the JSON text, none has a "parent" key.
get_parent(node) == None

\* get_focused_output after its get_tree.  The upward loop ends at once:
\* with the node itself when it is an output, with None otherwise, since
\* no node has a parent.  What it returns is a node or None, not an id.
get_focused_output_value(v) ==
    LET focused_node == IF IsNode(v) THEN find_focused_node(v.node) ELSE None
    IN  IF ~Truthy(focused_node) THEN None
        ELSE IF focused_node.node.type = "output" THEN focused_node
        ELSE IF ~Truthy(get_parent(focused_node.node)) THEN None
        ELSE get_parent(focused_node.node)

\* get_focused_output(), called by the user.
get_focused_output ==
    /\ Idle
    /\ Called(Args("get_focused_output"))
    /\ Call(<<"gfo_check", "return_res">>)
    /\ ret' = NoVal
    /\ UNCHANGED <<mtree, outQ, inQ, mclosed, tree, res>>
    /\ UNCHANGED frameVars

get_focused_output_check ==
    /\ pc = "gfo_check"
    /\ Ret(get_focused_output_value(tree))
    /\ UNCHANGED <<mtree, outQ, inQ, mclosed, loc, tree, ret, callSent,
                   fetches>>
    /\ UNCHANGED frameVars

\* isinstance(v, int): true of an int, and of a bool.
isinstance_int(v) == v.kind \in {"int", "True", "False"}

\* Step 3 of get_workspaces_from_focused_output.
workspaces_of(output_node) ==
    SelectSeq(output_node.nodes, LAMBDA n : n.type = "workspace")

\* get_workspaces_from_focused_output(), called by the user.
get_workspaces_from_focused_output ==
    /\ Idle
    /\ Called(Args("get_workspaces_from_focused_output"))
    /\ Call(<<"gfo_check", "gw_1", "return_res">>)
    /\ ret' = NoVal
    /\ UNCHANGED <<mtree, outQ, inQ, mclosed, tree, res>>
    /\ UNCHANGED frameVars

\* The steps of get_workspaces_from_focused_output after
\* get_focused_output ("gw_1": the isinstance check, then get_output) and
\* after get_output ("gw_2": the workspace nodes of the output).
get_workspaces_from_focused_output_steps ==
    /\ pc \in {"gw_1", "gw_2"}
    /\ IF pc = "gw_1"
       THEN IF ~isinstance_int(res)
            THEN Ret(List(<<>>)) /\ UNCHANGED loc
            ELSE /\ loc' = [loc EXCEPT !.output_id = res.int, !.key = ""]
                 /\ Call(<<"go_check", "gw_2">>)
                 /\ UNCHANGED res
       ELSE /\ IF ~Truthy(res)
               THEN Ret(List(<<>>))
               ELSE Ret(List(workspaces_of(res.node)))
            /\ UNCHANGED loc
    /\ UNCHANGED <<mtree, outQ, inQ, mclosed, tree, ret, callSent, fetches>>
    /\ UNCHANGED frameVars

\* Step 4 of get_focused_workspace: the first workspace with the name.
RECURSIVE workspace_named(_, _)
workspace_named(workspaces, name) ==
    IF workspaces = <<>> THEN None
    ELSE IF Head(workspaces).type = "workspace"
            /\ Head(workspaces).name = name
    THEN Dict(Head(workspaces))
    ELSE workspace_named(Tail(workspaces), name)

\* The steps of get_focused_workspace after get_focused_output ("fw_1"),
\* after get_output ("fw_2") and after
\* get_workspaces_from_focused_output ("fw_3").
get_focused_workspace_steps ==
    /\ pc \in {"fw_1", "fw_2", "fw_3"}
    /\ IF pc = "fw_1"
       THEN IF ~isinstance_int(res)
            THEN Ret(None) /\ UNCHANGED loc
            ELSE /\ loc' = [loc EXCEPT !.output_id = res.int, !.key = ""]
                 /\ Call(<<"go_check", "fw_2">>)
                 /\ UNCHANGED res
       ELSE IF pc = "fw_2"
       THEN IF ~Truthy(res) \/ res.node.current_workspace = ""
            THEN Ret(None) /\ UNCHANGED loc
            ELSE /\ loc' = [loc EXCEPT
                               !.workspace_info = res.node.current_workspace]
                 /\ Call(<<"gfo_check", "gw_1", "fw_3">>)
                 /\ UNCHANGED res
       ELSE /\ Ret(workspace_named(res.list, loc.workspace_info))
            /\ UNCHANGED loc
    /\ UNCHANGED <<mtree, outQ, inQ, mclosed, tree, ret, callSent, fetches>>
    /\ UNCHANGED frameVars

\* get_focused_workspace(), called by the user.
get_focused_workspace ==
    /\ Idle
    /\ Called(Args("get_focused_workspace"))
    /\ Call(<<"gfo_check", "fw_1", "return_res">>)
    /\ ret' = NoVal
    /\ UNCHANGED <<mtree, outQ, inQ, mclosed, tree, res>>
    /\ UNCHANGED frameVars

\* ------------------------------------------------------------------------
\* Spec: get_next_workspace_with_views and go_next_workspace_with_views
\* ------------------------------------------------------------------------

\* The loop of get_next_workspace_with_views: the names, each once and in
\* first-seen order, of the workspaces that have an immediate view.
RECURSIVE non_empty_names(_, _)
non_empty_names(workspaces, seen) ==
    IF workspaces = <<>> THEN <<>>
    ELSE LET ws == Head(workspaces)
         IN  IF ws.name \in seen
             THEN non_empty_names(Tail(workspaces), seen)
             ELSE (IF \E i \in 1..Len(ws.nodes) : IsViewNode(ws.nodes[i])
                   THEN <<ws.name>> ELSE <<>>)
                  \o non_empty_names(Tail(workspaces), seen \cup {ws.name})

\* non_empty_names.index(name), from 1; 0 for the ValueError.
index_of(names, name) ==
    IF \E i \in 1..Len(names) : names[i] = name
    THEN CHOOSE i \in 1..Len(names) :
             /\ names[i] = name
             /\ \A j \in 1..(i - 1) : names[j] # name
    ELSE 0

\* The end of get_next_workspace_with_views: the name after the focused
\* workspace's, circularly, or the first name.
next_name(names, current_workspace) ==
    IF ~Truthy(current_workspace) THEN names[1]
    ELSE LET current_idx == index_of(names, current_workspace.node.name)
         IN  IF current_idx = 0 THEN names[1]
             ELSE names[(current_idx % Len(names)) + 1]

\* get_next_workspace_with_views(), called by the user.
get_next_workspace_with_views ==
    /\ Idle
    /\ Called(Args("get_next_workspace_with_views"))
    /\ Call(<<"gfo_check", "gw_1", "nw_1", "return_res">>)
    /\ ret' = NoVal
    /\ UNCHANGED <<mtree, outQ, inQ, mclosed, tree, res>>
    /\ UNCHANGED frameVars

\* The steps of get_next_workspace_with_views after
\* get_workspaces_from_focused_output ("nw_1") and after
\* get_focused_workspace ("nw_2").
get_next_workspace_with_views_steps ==
    /\ pc \in {"nw_1", "nw_2"}
    /\ IF pc = "nw_1"
       THEN IF res.list = <<>> \/ non_empty_names(res.list, {}) = <<>>
            THEN Ret(None) /\ UNCHANGED loc
            ELSE /\ loc' = [loc EXCEPT
                               !.names = non_empty_names(res.list, {})]
                 /\ Call(<<"gfo_check", "fw_1", "nw_2">>)
                 /\ UNCHANGED res
       ELSE /\ Ret(Str(next_name(loc.names, res)))
            /\ UNCHANGED loc
    /\ UNCHANGED <<mtree, outQ, inQ, mclosed, tree, ret, callSent, fetches>>
    /\ UNCHANGED frameVars

\* A guard that never finds None.
is_none_never(v) == FALSE

\* `workspace_name is None`
is_none(v) == v.kind = "None"

\* History: the name of the workspace that holds the focus in the
\* manager's tree ("" when none does).
focused_workspace_name(root) ==
    LET at == { n \in NodesOf(root) :
                  /\ n.type = "workspace"
                  /\ \E k \in NodesOf(n) : k.focused }
    IN  IF at = {} THEN "" ELSE (CHOOSE n \in at : TRUE).name

RECURSIVE first_with_focus(_)
first_with_focus(outputs) ==
    IF outputs = <<>> THEN None
    ELSE IF \E k \in NodesOf(Head(outputs)) : k.focused
    THEN Dict(Head(outputs))
    ELSE first_with_focus(Tail(outputs))

\* History: the workspaces with views that the output holding the focus
\* has in the manager's tree.
focused_output_names(root) ==
    LET v == first_with_focus(outputs_of(root))
    IN  IF Truthy(v) THEN non_empty_names(workspaces_of(v.node), {}) ELSE <<>>

\* History: where the focus was at the start of each call of a run of
\* consecutive calls of go_next_workspace_with_views; a run that is as
\* long as there are workspaces with views starts over.
next_visit(visits, root) ==
    IF Len(visits) >= Len(focused_output_names(root))
    THEN <<focused_workspace_name(root)>>
    ELSE Append(visits, focused_workspace_name(root))

\* go_next_workspace_with_views(): get_next_workspace_with_views begins.
go_next_workspace_with_views ==
    /\ Idle
    /\ Called([Args("go_next_workspace_with_views") EXCEPT
                  !.visits = next_visit(loc.visits, mtree)])
    /\ Call(<<"gfo_check", "gw_1", "nw_1", "gn_1">>)
    /\ ret' = NoVal
    /\ UNCHANGED <<mtree, outQ, inQ, mclosed, tree, res>>
    /\ UNCHANGED frameVars

\* `if workspace_name is None: return`, else
\* run_command(f"workspace {workspace_name}").
go_next_workspace_with_views_1 ==
    /\ pc = "gn_1"
    /\ IF is_none(res)
       THEN Finish(None) /\ NotSent
       ELSE IF mclosed
       THEN Finish(BrokenPipe) /\ NotSent
       ELSE /\ Sent(RUN_COMMAND, Cmd("", 0, "workspace", res.str, <<>>), <<>>)
            /\ Finish(None)
    /\ UNCHANGED <<mtree, mclosed, loc, tree, res, fetches>>
    /\ UNCHANGED frameVars

\* ------------------------------------------------------------------------
\* Spec: move_view_to_new_empty_workspace
\* ------------------------------------------------------------------------

\* A pid check that lets the pid 0 through.
valid_pid_any_int(pid) == pid.kind = "int"

\* The negation of `not pid or not isinstance(pid, int)`: the pid is there,
\* is not zero and is an int.
valid_pid(pid) == pid.kind = "int" /\ pid.n # 0

\* workspace_name: str(pid), or "unknown" for a pid that is not valid.
workspace_name_of(pid) ==
    IF valid_pid(pid) THEN ToString(pid.n) ELSE "unknown"

\* `workspace_name not in workspace_names`, workspace_names being the
\* names of existing_workspaces.
not_in_names(workspace_name, existing_workspaces) ==
    \A i \in 1..Len(existing_workspaces) :
        existing_workspaces[i].name # workspace_name

\* move_view_to_new_empty_workspace(view_id): get_view begins.
move_view_to_new_empty_workspace(view_id) ==
    /\ Idle
    /\ Called([Args("move_view_to_new_empty_workspace") EXCEPT
                  !.view_id = view_id, !.max_retries = DefaultMaxRetries])
    /\ pc' = "gv_loop"
    /\ rstack' = <<"mn_1">>
    /\ ret' = NoVal
    /\ UNCHANGED <<mtree, outQ, inQ, mclosed, tree, res>>
    /\ UNCHANGED frameVars

\* `if not view: return False`, then the selector and the workspace name,
\* and get_workspaces_from_focused_output begins.
move_view_to_new_empty_workspace_1 ==
    /\ pc = "mn_1"
    /\ IF not_view(res)
       THEN Finish(False) /\ UNCHANGED loc
       ELSE /\ loc' = [loc EXCEPT
                          !.selector = selector_of(res.node),
                          !.workspace_name = workspace_name_of(res.node.pid)]
            /\ Call(<<"gfo_check", "gw_1", "mn_2">>)
            /\ UNCHANGED ret
    /\ UNCHANGED <<mtree, outQ, inQ, mclosed, tree, res, callSent, fetches>>
    /\ UNCHANGED frameVars

\* `if workspace_name not in workspace_names:` the create command, inside
\* its try block; then, inside the next try block, move_view_to_workspace
\* begins with its get_view.  What move_view_to_workspace returns is what
\* this operation returns.
move_view_to_new_empty_workspace_2 ==
    /\ pc = "mn_2"
    /\ IF not_in_names(loc.workspace_name, res.list) /\ mclosed
       THEN Finish(False) /\ NotSent /\ UNCHANGED loc
       ELSE /\ IF not_in_names(loc.workspace_name, res.list)
               THEN Sent(RUN_COMMAND,
                         Cmd("", 0, "workspace", loc.workspace_name, <<>>),
                         <<>>)
               ELSE NotSent
            /\ loc' = [loc EXCEPT !.attempt = 0, !.catching = TRUE]
            /\ pc' = "gv_loop"
            /\ rstack' = <<"mv_1">>
            /\ UNCHANGED ret
    /\ UNCHANGED <<mtree, mclosed, tree, res, fetches>>
    /\ UNCHANGED frameVars

\* ------------------------------------------------------------------------
\* Spec: get_focused_view, go_next_view_in_workspace and maximize_view
\* ------------------------------------------------------------------------

\* A search that gives up when the first focused node is no view.
get_focused_view_views_only(v) ==
    IF IsNode(v) /\ Truthy(find_focused_node(v.node))
                /\ IsViewNode(find_focused_node(v.node).node)
    THEN find_focused_node(v.node)
    ELSE None

\* get_focused_view's traverse(tree): the first node in pre-order with a
\* true "focused", None for a reply that is no dict.
get_focused_view_value(v) ==
    IF IsNode(v) THEN find_focused_node(v.node) ELSE None

\* get_focused_view(), called by the user.
get_focused_view ==
    /\ Idle
    /\ Called(Args("get_focused_view"))
    /\ Call(<<"gfv_check", "return_res">>)
    /\ ret' = NoVal
    /\ UNCHANGED <<mtree, outQ, inQ, mclosed, tree, res>>
    /\ UNCHANGED frameVars

get_focused_view_check ==
    /\ pc = "gfv_check"
    /\ Ret(get_focused_view_value(tree))
    /\ UNCHANGED <<mtree, outQ, inQ, mclosed, loc, tree, ret, callSent,
                   fetches>>
    /\ UNCHANGED frameVars

\* views: focused_workspace["nodes"], or its "floating_nodes" when there
\* are no nodes.
views_of(focused_workspace) ==
    IF focused_workspace.nodes # <<>> THEN focused_workspace.nodes
    ELSE focused_workspace.floating_nodes

\* next(i for i, v in enumerate(views) if v["id"] == focused_id), from 1;
\* 0 for StopIteration.
index_of_id(views, focused_id) ==
    IF \E i \in 1..Len(views) : views[i].id = focused_id
    THEN CHOOSE i \in 1..Len(views) :
             /\ views[i].id = focused_id
             /\ \A j \in 1..(i - 1) : views[j].id # focused_id
    ELSE 0

\* The view that gets the focus: views[(idx + 1) % len(views)], or
\* views[0] after StopIteration.
next_view(views, focused_id) ==
    IF index_of_id(views, focused_id) = 0 THEN views[1]
    ELSE views[(index_of_id(views, focused_id) % Len(views)) + 1]

\* go_next_view_in_workspace(): get_focused_workspace begins.
go_next_view_in_workspace ==
    /\ Idle
    /\ Called(Args("go_next_view_in_workspace"))
    /\ Call(<<"gfo_check", "fw_1", "nv_1">>)
    /\ ret' = NoVal
    /\ UNCHANGED <<mtree, outQ, inQ, mclosed, tree, res>>
    /\ UNCHANGED frameVars

\* The steps of go_next_view_in_workspace after get_focused_workspace
\* ("nv_1": `if focused_workspace is None: return`, the views,
\* `if len(views) <= 1: return`, then get_focused_view) and after
\* get_focused_view ("nv_2": get_focused_view()["id"], a TypeError on None,
\* then the focus command with run_command).
go_next_view_in_workspace_steps ==
    /\ pc \in {"nv_1", "nv_2"}
    /\ IF pc = "nv_1"
       THEN /\ IF is_none(res)
               THEN Finish(None) /\ UNCHANGED loc
               ELSE IF Len(views_of(res.node)) <= 1
               THEN Finish(None) /\ UNCHANGED loc
               ELSE /\ loc' = [loc EXCEPT !.views = views_of(res.node)]
                    /\ Call(<<"gfv_check", "nv_2">>)
                    /\ UNCHANGED ret
            /\ NotSent
       ELSE /\ IF is_none(res)
               THEN Finish(Raise("TypeError")) /\ NotSent
               ELSE IF mclosed
               THEN Finish(BrokenPipe) /\ NotSent
               ELSE /\ Sent(RUN_COMMAND,
                            Cmd(selector_of(next_view(loc.views, res.node.id)),
                                next_view(loc.views, res.node.id).id,
                                "focus", "", <<>>), <<>>)
                    /\ Finish(None)
            /\ UNCHANGED loc
    /\ UNCHANGED <<mtree, mclosed, tree, res, fetches>>
    /\ UNCHANGED frameVars

\* The defaults of rect.get("width", 1920) and rect.get("height", 1080).
DefaultWidth == 1920

DefaultHeight == 1080

\* maximize_view(view_id): get_focused_workspace begins.
maximize_view(view_id) ==
    /\ Idle
    /\ Called([Args("maximize_view") EXCEPT
                  !.view_id = view_id, !.max_retries = DefaultMaxRetries])
    /\ Call(<<"gfo_check", "fw_1", "mx_1">>)
    /\ ret' = NoVal
    /\ UNCHANGED <<mtree, outQ, inQ, mclosed, tree, res>>
    /\ UNCHANGED frameVars

\* The steps of maximize_view after get_focused_workspace ("mx_1":
\* `if not workspace: return False`, `if not rect: return False`, width
\* and height, then get_view) and after get_view ("mx_2":
\* `if not view: return False`, then inside the try block the command
\* f"{selector} floating enable" and configure_view(view_id, x=0, y=0,
\* w=width, h=height), whose result is returned).
maximize_view_steps ==
    /\ pc \in {"mx_1", "mx_2"}
    /\ IF pc = "mx_1"
       THEN /\ IF ~Truthy(res)
               THEN Finish(False) /\ UNCHANGED loc
               ELSE IF ~res.node.rect.present
               THEN Finish(False) /\ UNCHANGED loc
               ELSE /\ loc' = [loc EXCEPT
                                  !.w = IF res.node.rect.sized
                                        THEN res.node.rect.width
                                        ELSE DefaultWidth,
                                  !.h = IF res.node.rect.sized
                                        THEN res.node.rect.height
                                        ELSE DefaultHeight]
                    /\ CallGetView("mx_2")
                    /\ UNCHANGED ret
            /\ NotSent
       ELSE IF not_view(res)
       THEN Finish(False) /\ NotSent /\ UNCHANGED loc
       ELSE IF mclosed
       THEN Finish(False) /\ NotSent /\ UNCHANGED loc
       ELSE /\ Sent(RUN_COMMAND,
                    Cmd(selector_of(res.node), loc.view_id, "floating",
                        "enable", <<>>), <<>>)
            /\ loc' = [loc EXCEPT !.attempt = 0, !.catching = TRUE,
                                  !.x = 0, !.y = 0, !.has_output = FALSE]
            /\ pc' = "gv_loop"
            /\ rstack' = <<"cv_1">>
            /\ UNCHANGED ret
    /\ UNCHANGED <<mtree, mclosed, tree, res, fetches>>
    /\ UNCHANGED frameVars

\* ------------------------------------------------------------------------
\* Spec: list_views
\* ------------------------------------------------------------------------

\* A traversal that visits floating_nodes before nodes.
RECURSIVE list_views_floating_first(_)
list_views_floating_first(children) ==
    IF children = <<>> THEN <<>>
    ELSE LET node == Head(children)
         IN  (IF IsViewNode(node) /\ node.id # 0 THEN <<node>> ELSE <<>>)
             \o list_views_floating_first(node.floating_nodes \o node.nodes)
             \o list_views_floating_first(Tail(children))

\* list_views' traverse over a list of nodes: a node is appended when its
\* type is "con" or "floating_con" and its id is truthy, then its children
\* are traversed, nodes + floating_nodes.
RECURSIVE list_views_traverse(_)
list_views_traverse(children) ==
    IF children = <<>> THEN <<>>
    ELSE LET node == Head(children)
         IN  (IF IsViewNode(node) /\ node.id # 0 THEN <<node>> ELSE <<>>)
             \o list_views_traverse(Children(node))
             \o list_views_traverse(Tail(children))

\* traverse(tree) on whatever get_tree returned: nothing is appended for a
\* reply that is no dict, or a dict without type and children.
list_views_value(v) ==
    IF IsNode(v) THEN list_views_traverse(<<v.node>>) ELSE <<>>

\* list_views(), called by the user.
list_views ==
    /\ Idle
    /\ Called(Args("list_views"))
    /\ Call(<<"lv_return">>)
    /\ ret' = NoVal
    /\ UNCHANGED <<mtree, outQ, inQ, mclosed, tree, res>>
    /\ UNCHANGED frameVars

\* traverse(tree); return views
list_views_return ==
    /\ pc = "lv_return"
    /\ Finish(List(list_views_value(tree)))
    /\ UNCHANGED <<mtree, outQ, inQ, mclosed, loc, tree, res, callSent,
                   fetches>>
    /\ UNCHANGED frameVars

\* ------------------------------------------------------------------------
\* Spec: list_outputs and get_output_by_name
\* ------------------------------------------------------------------------

\* list_outputs after its get_tree: the output nodes among the children
\* of the tree, or the AttributeError of `tree.get` on None and on a reply
\* that is a list; a dict without "nodes" gives [].
list_outputs_value(v) ==
    IF v.kind = "dict" THEN List(outputs_of(v.node))
    ELSE IF v.kind = "subdict" THEN List(<<>>)
    ELSE Raise("AttributeError")

\* list_outputs(), called by the user.
list_outputs ==
    /\ Idle
    /\ Called(Args("list_outputs"))
    /\ Call(<<"lo_check", "return_res">>)
    /\ ret' = NoVal
    /\ UNCHANGED <<mtree, outQ, inQ, mclosed, tree, res>>
    /\ UNCHANGED frameVars

list_outputs_check ==
    /\ pc = "lo_check"
    /\ IF list_outputs_value(tree).kind = "raise"
       THEN Finish(list_outputs_value(tree)) /\ UNCHANGED res
       ELSE Ret(list_outputs_value(tree)) /\ UNCHANGED ret
    /\ UNCHANGED <<mtree, outQ, inQ, mclosed, loc, tree, callSent, fetches>>
    /\ UNCHANGED frameVars

\* The first output with the name, or None; None also for no outputs.
RECURSIVE first_with_name(_, _)
first_with_name(outputs, name) ==
    IF outputs = <<>> THEN None
    ELSE IF Head(outputs).name = name THEN Dict(Head(outputs))
    ELSE first_with_name(Tail(outputs), name)

\* get_output_by_name(name): list_outputs begins.
get_output_by_name(name) ==
    /\ Idle
    /\ Called([Args("get_output_by_name") EXCEPT !.key = name])
    /\ Call(<<"lo_check", "gobn_1">>)
    /\ ret' = NoVal
    /\ UNCHANGED <<mtree, outQ, inQ, mclosed, tree, res>>
    /\ UNCHANGED frameVars

\* `if outputs:` and the loop over them.
get_output_by_name_1 ==
    /\ pc = "gobn_1"
    /\ Finish(first_with_name(res.list, loc.key))
    /\ UNCHANGED <<mtree, outQ, inQ, mclosed, loc, tree, res, callSent,
                   fetches>>
    /\ UNCHANGED frameVars

\* ------------------------------------------------------------------------
\* Spec: inputs and the next-state relation
\* ------------------------------------------------------------------------

\* View 6 is in every tree, no node has id 9.
ViewIds == {6, 9}

\* The views moved to a workspace named after their pid: one per kind of
\* pid (5, absent, a string, 0), and 9, the id of no node.
MoveIds == {6, 7, 8, 9, 12}

\* Output 2 has two views on its current workspace, output 3 has one, no
\* output has id 9.
OutputIds == {2, 3, 9}

\* -0.1, 0.0, 0.5, 1.0, 1.1 and NaN
Opacities == {Opacity(-1), Opacity(0), Opacity(5), Opacity(10), Opacity(11), NaN}

\* configure_view's view_id, x and output_id (0 for None): view 6 with a
\* position and an output, view 6 without, and the missing view 9.
ConfigureArgs == { <<6, 5, 2>>, <<6, 0, 0>>, <<9, 0, 0>> }

\* The name of output 3, and the name of no output.
OutputNames == {"DP-2", "HDMI-1"}

EventLists ==
    { NoEvents, Events(<<>>), Events(<<"window">>), Events(<<"bogus">>),
      Events(<<"window", "bogus">>) }

Next ==
    \/ manager_reply
    \/ manager_close
    \/ manager_switch
    \/ forget
    \/ get_tree
    \/ get_tree_send
    \/ get_tree_recv
    \/ get_tree_return
    \/ run_command(Cmd("", 0, "workspace", "1", <<>>))
    \/ \E v \in ViewIds : close_view(v)
    \/ \E v \in ViewIds, o \in Opacities : set_view_alpha(v, o)
    \/ \E v \in ViewIds, s \in BOOLEAN : set_view_minimized(v, s)
    \/ \E v \in ViewIds, s \in BOOLEAN : set_view_maximized(v, s)
    \/ \E v \in ViewIds, s \in BOOLEAN : set_view_fullscreen(v, s)
    \/ \E v \in ViewIds : set_view_focus(v)
    \/ \E v \in ViewIds, m \in 0..MaxRetries : get_view(v, m)
    \/ get_view_loop
    \/ get_view_check
    \/ return_res
    \/ \E o \in OutputIds, k \in {"", "current_workspace", "nodes"} :
          get_output(o, k)
    \/ get_output_check
    \/ \E o \in OutputIds : show_desktop(o)
    \/ show_desktop_1
    \/ show_desktop_2
    \/ show_desktop_send
    \/ \E a \in ConfigureArgs :
          configure_view(a[1], a[2], 0, 800, 600, a[3] # 0, a[3])
    \/ configure_view_1
    \/ configure_view_output
    \/ configure_view_floating
    \/ configure_view_position
    \/ configure_view_resize
    \/ \E v \in ViewIds : move_view_to_workspace(v, "3")
    \/ move_view_to_workspace_1
    \/ move_view_to_workspace_send
    \/ \E e \in EventLists : watch(e)
    \/ watch_send
    \/ watch_recv
    \/ get_focused_output
    \/ get_focused_output_check
    \/ get_workspaces_from_focused_output
    \/ get_workspaces_from_focused_output_steps
    \/ get_focused_workspace
    \/ get_focused_workspace_steps
    \/ get_next_workspace_with_views
    \/ get_next_workspace_with_views_steps
    \/ go_next_workspace_with_views
    \/ go_next_workspace_with_views_1
    \/ \E v \in MoveIds : move_view_to_new_empty_workspace(v)
    \/ move_view_to_new_empty_workspace_1
    \/ move_view_to_new_empty_workspace_2
    \/ get_focused_view
    \/ get_focused_view_check
    \/ go_next_view_in_workspace
    \/ go_next_view_in_workspace_steps
    \/ maximize_view(6)
    \/ maximize_view_steps
    \/ list_views
    \/ list_views_return
    \/ list_outputs
    \/ list_outputs_check
    \/ \E n \in OutputNames : get_output_by_name(n)
    \/ get_output_by_name_1

Spec == Init /\ [][Next]_vars

SpecFrame == InitFrame /\ [][NextFrame]_vars

\* ------------------------------------------------------------------------
\* SpecFrame: what the history says about the stream
\* ------------------------------------------------------------------------

\* The bytes of a frame as its writer meant it, and the prefix that was
\* written.
FrameBytes(f) == pack(f.magic, Len(f.payload), f.msg_type) \o f.payload

RECURSIVE FrameStart(_)
FrameStart(i) == IF i <= 1 THEN 0 ELSE FrameStart(i - 1) + frames[i - 1].size

Whole(f) == f.size = HeaderLen + Len(f.payload)

\* The current or last call of _recv began where frame i begins.
CallOn(i) ==
    /\ i \in 1..Len(frames)
    /\ startAt = FrameStart(i)
    /\ (i > 1 => frames[i - 1].size > 0)
    /\ (rpc # "idle" \/ rret.kind # "none")

Returned == rpc = "idle" /\ rret.kind # "none"

\* ------------------------------------------------------------------------
\* Claims settled under SpecFrame
\* ------------------------------------------------------------------------

\* C4: a call of _recv that begins at the start of a whole frame (a header
\* with the magic literal, then `length` payload bytes) reads, however the
\* socket splits the stream, 14 header bytes and then `length` payload bytes
\* and nothing of the frame behind it: its buffer is at every moment a
\* prefix of that frame, the header loop ends at 14 bytes, and when it
\* returns it has read exactly 14 + length bytes, stands at the start of the
\* next frame and returns this frame's payload decoded.
C4_RecvConsumesExactlyOneFrame ==
    \A i \in 1..Len(frames) :
        (CallOn(i) /\ Whole(frames[i]) /\ frames[i].magic = Magic) =>
            /\ rd - startAt <= frames[i].size
            /\ buffer = Take(FrameBytes(frames[i]), rd - startAt)
            /\ (rpc = "header" => Len(buffer) < HeaderLen)
            /\ (rpc = "payload" =>
                    /\ Len(buffer) >= HeaderLen
                    /\ Len(buffer) < frames[i].size
                    /\ hdr.length = Len(frames[i].payload))
            /\ (rpc = "idle" =>
                    /\ rd = FrameStart(i + 1)
                    /\ hdr.length = Len(frames[i].payload)
                    /\ rret = loads(frames[i].payload))

\* C4 witness: the second of two consecutive calls has returned the second
\* frame's payload after reads that came back short, the first frame
\* having been followed on the stream by the second.
C4_Witness ==
    /\ Len(frames) = 2
    /\ ncalls = 2
    /\ CallOn(2)
    /\ Returned
    /\ split
    /\ Whole(frames[1]) /\ Whole(frames[2])
    /\ frames[1].magic = Magic /\ frames[2].magic = Magic
    /\ Len(frames[1].payload) > 1
    /\ rret.kind = "value"

\* C5 (as amended): a frame built by _send(msg_type, payload) and read
\* back by _recv from its first byte gives, in the header _recv unpacks,
\* the magic literal, the UTF-8 byte length of the payload and the original
\* type code; _recv returns the payload's JSON value when the payload is a
\* JSON text (also one that arrives over several reads), and None when it
\* is not, which includes the payload of length 0.
C5_RoundTrip ==
    \A i \in 1..Len(frames) :
        (CallOn(i) /\ frames[i].origin = "send" /\ Returned) =>
            LET f == frames[i]
                j == json_text(f.text)
            IN  /\ hdr.magic = Magic
                /\ hdr.msg_type = f.msg_type
                /\ hdr.length = Len(utf8_encode(f.text))
                /\ (j.ok => rret = [kind |-> "value", vkind |-> j.kind,
                                    data |-> j.text])
                /\ (~j.ok => rret = RetNone)

\* C5 witness: the three-character, four-byte payload "\"é\"" has come
\* back as the string é after reads that came back short.
C5_Witness ==
    \E i \in 1..Len(frames) :
        /\ CallOn(i)
        /\ Returned
        /\ split
        /\ frames[i].origin = "send"
        /\ frames[i].text = <<34, 233, 34>>
        /\ frames[i].msg_type = GET_TREE
        /\ hdr.msg_type = GET_TREE
        /\ rret = [kind |-> "value", vkind |-> "str", data |-> <<233>>]

\* C5 as first stated: the round trip reproduces the type code and a
\* JSON-equivalent payload for the payload of length 0 as for the JSON
\* texts of length 1 and more.
C5_Original ==
    \A i \in 1..Len(frames) :
        (/\ CallOn(i) /\ frames[i].origin = "send" /\ Returned
         /\ (frames[i].text = <<>> \/ json_text(frames[i].text).ok)) =>
            /\ hdr.msg_type = frames[i].msg_type
            /\ rret.kind = "value"
            /\ rret.data = json_text(frames[i].text).text

\* The peer closed the stream inside frame i, which _recv was called on.
ClosedInside(i) ==
    /\ CallOn(i)
    /\ i = Len(frames)
    /\ peerClosed
    /\ ~Whole(frames[i])

\* C6 (as amended): when the peer closes the stream before the 14 header
\* bytes are complete, or after a header that carries the magic literal
\* and before its `length` payload bytes are complete, _recv returns None.
C6_ClosedStreamGivesNone ==
    \A i \in 1..Len(frames) :
        (/\ ClosedInside(i) /\ Returned
         /\ (frames[i].size < HeaderLen \/ frames[i].magic = Magic)) =>
            rret = RetNone

\* C6 witness: the peer closed after a whole header with the magic literal
\* and the first of two payload bytes; _recv has read them and returned
\* None.
C6_Witness ==
    \E i \in 1..Len(frames) :
        /\ ClosedInside(i)
        /\ Returned
        /\ frames[i].size = HeaderLen + 1
        /\ frames[i].magic = Magic
        /\ hdr.length = 2
        /\ Len(buffer) = HeaderLen + 1
        /\ rret = RetNone

\* C6 as first stated: whatever the header, a stream closed before the
\* header or the payload is complete makes _recv return None.
C6_Original ==
    \A i \in 1..Len(frames) : (ClosedInside(i) /\ Returned) => rret = RetNone

\* C7: a whole frame whose payload is not valid JSON makes _recv return
\* None, never raise, with the whole frame consumed.
C7_BadPayloadGivesNone ==
    \A i \in 1..Len(frames) :
        (/\ CallOn(i) /\ Returned /\ Whole(frames[i])
         /\ frames[i].magic = Magic
         /\ loads(frames[i].payload).kind # "value") =>
            /\ rret = RetNone
            /\ rd = FrameStart(i + 1)

\* ------------------------------------------------------------------------
\* Spec: what the history says about the call in progress
\* ------------------------------------------------------------------------

\* The command frames (type 0) among the frames the call has sent.
Commands(sent) == SelectSeq(sent, LAMBDA m : m.type = RUN_COMMAND)

IsPrefix(s, t) == Len(s) <= Len(t) /\ \A i \in 1..Len(s) : s[i] = t[i]

\* The call is over and did not end in an exception.
ReturnedFrom(op) == pc = "done" /\ loc.op = op /\ ret.kind # "raise"

\* The fetched value v is a tree with a node whose id is view_id.
HasView(v, view_id) ==
    v.kind = "dict" /\ \E n \in NodesOf(v.node) : n.id = view_id

\* The selector the rule asks for: "[id=..]" for an XWayland view,
\* "[con_id=..]" for any other.
RuleSelector(view) == IF view.shell = "xwayland" THEN "id" ELSE "con_id"

\* The output with the id among the children of the root of a fetched
\* tree, as a set with at most the first such output.
OutputIn(v, output_id) ==
    IF v.kind # "dict" THEN {}
    ELSE { v.node.nodes[i] : i \in
             { j \in 1..Len(v.node.nodes) :
                 /\ v.node.nodes[j].type = "output"
                 /\ v.node.nodes[j].id = output_id
                 /\ \A k \in 1..(j - 1) :
                       ~(/\ v.node.nodes[k].type = "output"
                         /\ v.node.nodes[k].id = output_id) } }

\* The immediate views of the current workspace of the output, as the two
\* fetches of show_desktop show it: the workspace's name in the first, its
\* node among the output's children in the second.
CurrentViews(fs, output_id) ==
    IF Len(fs) < 2 THEN <<>>
    ELSE LET o1 == OutputIn(fs[1].val, output_id)
             o2 == OutputIn(fs[2].val, output_id)
         IN  IF o1 = {} \/ o2 = {} THEN <<>>
             ELSE LET name == (CHOOSE o \in o1 : TRUE).current_workspace
                      kids == (CHOOSE o \in o2 : TRUE).nodes
                      at == { j \in 1..Len(kids) :
                                /\ kids[j].type = "workspace"
                                /\ kids[j].name = name }
                  IN  IF name = "" \/ at = {} THEN <<>>
                      ELSE LET first == CHOOSE j \in at :
                                            \A k \in at : j <= k
                           IN  SelectSeq(kids[first].nodes,
                                   LAMBDA n : n.type \in {"con", "floating_con"})

\* ------------------------------------------------------------------------
\* Claims settled under Spec
\* ------------------------------------------------------------------------

\* C1: whenever an operation sends a request frame, the previous request
\* frame has been answered and its answer received: no request is waiting
\* at the manager and no reply of the manager is unread.
C1_OneReceivePerRequest ==
    [][Len(outQ') > Len(outQ) => (outQ = <<>> /\ inQ = <<>>)]_vars

\* C2: what a call of get_tree returns is never the reply to a request
\* sent before that call: the reply it received answers the get-tree
\* request the call itself sent.
C2_GetTreeReturnsOwnReply ==
    ReturnedFrom("get_tree") =>
        \A i \in 1..Len(fetches) : fetches[i].tag # "old"

\* C3: get_view(view_id, max_retries) sends nothing but get-tree requests,
\* at most max_retries of them (none when max_retries = 0), and receives
\* at most one reply for each; no fetch before the last one had a node with
\* the id; when it returns, either the last fetch has such a node and it
\* returns a node of that tree with id = view_id, or no fetch has one, it
\* has fetched max_retries times and it returns None.
C3_GetViewBoundedRetries ==
    loc.op = "get_view" =>
        /\ Len(callSent) <= loc.max_retries
        /\ Len(fetches) <= Len(callSent)
        /\ \A i \in 1..Len(callSent) : callSent[i].type = GET_TREE
        /\ \A i \in 1..(Len(fetches) - 1) :
               ~HasView(fetches[i].val, loc.view_id)
        /\ ReturnedFrom("get_view") =>
               /\ Len(fetches) = Len(callSent)
               /\ IF \E i \in 1..Len(fetches) :
                        HasView(fetches[i].val, loc.view_id)
                  THEN /\ ret.kind = "dict"
                       /\ ret.node.id = loc.view_id
                       /\ ret.node \in NodesOf(fetches[Len(fetches)].val.node)
                  ELSE /\ ret = None
                       /\ Len(fetches) = loc.max_retries

\* C3 witness: get_view has returned the view from its second fetch, the
\* first fetch having brought a reply without it.
C3_Witness ==
    /\ ReturnedFrom("get_view")
    /\ loc.max_retries = 2
    /\ Len(fetches) = 2
    /\ ~HasView(fetches[1].val, loc.view_id)
    /\ ret.kind = "dict"
    /\ ret.node.id = loc.view_id

\* C8: a call of watch with a name outside the allow-list, and a call of
\* set_view_alpha with an opacity that is not within [0.0, 1.0], sends no
\* frame and receives nothing, and ends by raising ValueError.
C8_InvalidArgumentsRejectedBeforeIO ==
    LET bad_watch ==
            /\ loc.op = "watch"
            /\ ~loc.events.none
            /\ \E i \in 1..Len(loc.events.names) :
                   \A j \in 1..Len(valid_events) :
                       loc.events.names[i] # valid_events[j]
        bad_alpha ==
            /\ loc.op = "set_view_alpha"
            /\ ~(/\ ~loc.opacity.nan
                 /\ loc.opacity.tenths \in 0..10)
    IN  (bad_watch \/ bad_alpha) =>
            /\ callSent = <<>>
            /\ fetches = <<>>
            /\ pc = "done"
            /\ ret = Raise("ValueError")

\* C8 witness: watch(["window", "bogus"]) has raised, the valid name in
\* front of the invalid one notwithstanding.
C8_Witness ==
    /\ pc = "done"
    /\ loc.op = "watch"
    /\ loc.events = Events(<<"window", "bogus">>)
    /\ ret = Raise("ValueError")
    /\ callSent = <<>>

\* C9: every command an operation sends to a view of the manager's tree
\* begins with "[id=<id>]" when that view's shell is "xwayland" and with
\* "[con_id=<id>]" otherwise.
C9_SelectorFollowsShell ==
    \A i \in 1..Len(callSent) :
        (callSent[i].type = RUN_COMMAND /\ callSent[i].cmd.sel # "") =>
            \A n \in NodesOf(mtree) :
                n.id = callSent[i].cmd.id =>
                    callSent[i].cmd.sel = RuleSelector(n)

\* C10: the commands a call of show_desktop(output_id) has sent are at
\* every moment the first ones of: one command per immediate view of the
\* output's current workspace, in the workspace's order, each to that
\* view's selector, all with the verb "scratchpad show" if every one of
\* these views has scratchpad_state "fresh" and all with "move scratchpad"
\* otherwise; when the call returns it has sent all of them.
C10_ShowDesktopOneVerbForAllViews ==
    loc.op = "show_desktop" =>
        LET views == CurrentViews(fetches, loc.output_id)
            verb == IF \A i \in 1..Len(views) :
                          views[i].scratchpad_state = "fresh"
                    THEN "scratchpad show" ELSE "move scratchpad"
            expected == [i \in 1..Len(views) |->
                            [type |-> RUN_COMMAND,
                             cmd |-> Cmd(RuleSelector(views[i]), views[i].id,
                                         verb, "", <<>>),
                             names |-> <<>>]]
        IN  /\ IsPrefix(Commands(callSent), expected)
            /\ ReturnedFrom("show_desktop") => Commands(callSent) = expected

\* C10 witness: show_desktop has returned after sending "move scratchpad"
\* to both views of the workspace, one of which was in the scratchpad
\* already.
C10_Witness ==
    /\ ReturnedFrom("show_desktop")
    /\ Len(Commands(callSent)) = 2
    /\ \A i \in 1..2 : Commands(callSent)[i].cmd.verb = "move scratchpad"
    /\ \E i \in 1..Len(loc.views) : loc.views[i].scratchpad_state = "fresh"
    /\ \E i \in 1..Len(loc.views) : loc.views[i].scratchpad_state # "fresh"

\* C11: when show_desktop is called on an output whose current workspace
\* shows all its views (none is in the scratchpad), returns, and is called
\* again on the same output with nothing else in between, then after the
\* second call, the manager having carried out every command sent, all
\* these views are out of the scratchpad again.
C11_ShowDesktopTwiceRestores ==
    ( /\ pc = "done"
      /\ loc.op = "show_desktop"
      /\ loc.before # 0
      /\ loc.before = loc.output_id
      /\ ~mclosed
      /\ outQ = <<>> ) =>
        all_visible(shown_views(mtree, loc.output_id))

\* ------------------------------------------------------------------------
\* Spec: what the manager's tree says about the focus
\* ------------------------------------------------------------------------

\* Every fetch of the call brought the tree, in answer to the call's own
\* request.
FreshFetches ==
    \A i \in 1..Len(fetches) :
        fetches[i].tag = "cur" /\ fetches[i].val.kind = "dict"

HoldsFocus(node) == \E n \in NodesOf(node) : n.focused

\* The outputs of the tree that hold the focused node (one at most).
FocusedOutputs(root) ==
    { root.nodes[i] : i \in { j \in 1..Len(root.nodes) :
                                /\ root.nodes[j].type = "output"
                                /\ HoldsFocus(root.nodes[j]) } }

\* The workspaces of an output, and the one of them that holds the focus.
WorkspacesOf(output) ==
    SelectSeq(output.nodes, LAMBDA n : n.type = "workspace")

FocusedWorkspaces(output) ==
    { WorkspacesOf(output)[i] : i \in
        { j \in 1..Len(WorkspacesOf(output)) :
            HoldsFocus(WorkspacesOf(output)[j]) } }

\* L: the names of the output's workspaces, each once in first-seen
\* order, restricted to the workspaces with an immediate view.
NamesWithViews(output) ==
    LET ws == WorkspacesOf(output)
        kept(i) == /\ \A j \in 1..(i - 1) : ws[j].name # ws[i].name
                   /\ \E k \in 1..Len(ws[i].nodes) :
                          ws[i].nodes[k].type \in {"con", "floating_con"}
        idx == SelectSeq([i \in 1..Len(ws) |-> i], kept)
    IN  [i \in 1..Len(idx) |-> ws[idx[i]].name]

\* The name the rule gives: after the focused workspace's name in L,
\* circularly; L's first name when the focused workspace is not in L; ""
\* when L is empty.
NextNameByRule(output) ==
    LET L == NamesWithViews(output)
        at == { i \in 1..Len(L) :
                  \E w \in FocusedWorkspaces(output) : w.name = L[i] }
    IN  IF L = <<>> THEN ""
        ELSE IF at = {} THEN L[1]
        ELSE L[((CHOOSE i \in at : TRUE) % Len(L)) + 1]

\* C12: when get_next_workspace_with_views returns, having fetched the
\* tree each time, and L, the names of the focused output's workspaces
\* that have an immediate view, is not empty, the result is the name that
\* follows the focused workspace's name in L, circularly, or the first
\* name of L when the focused workspace is not in L.
C12_NextWorkspaceIsSuccessor ==
    ( /\ ReturnedFrom("get_next_workspace_with_views")
      /\ FreshFetches ) =>
        \A o \in FocusedOutputs(mtree) :
            NamesWithViews(o) # <<>> => ret = Str(NextNameByRule(o))

\* C13: over N workspaces with views on the focused output, with the
\* manager moving the focus to the workspace each issued command names, N
\* consecutive calls of go_next_workspace_with_views visit each of the N
\* names once and leave the focus on the workspace where it started.
\* Stated at the return of the N-th call of a run, all its frames
\* handled by the manager and all its replies its own: the places the
\* focus was at after each call of the run are the N names, and the
\* last place is the first call's starting place.
C13_CallsCycleThroughWorkspaces ==
    ( /\ ReturnedFrom("go_next_workspace_with_views")
      /\ FreshFetches
      /\ ~mclosed
      /\ outQ = <<>> )
    => \A o \in FocusedOutputs(mtree) :
          LET L == NamesWithViews(o)
              after == Append(Tail(loc.visits), focused_workspace_name(mtree))
          IN  ( /\ Len(L) >= 1
                /\ Len(loc.visits) = Len(L)
                /\ \E i \in 1..Len(L) : L[i] = loc.visits[1] )
              => /\ { after[i] : i \in 1..Len(after) }
                      = { L[i] : i \in 1..Len(L) }
                 /\ focused_workspace_name(mtree) = loc.visits[1]

\* C14: when no workspace of the focused output has an immediate view,
\* get_next_workspace_with_views returns None and
\* go_next_workspace_with_views sends no run-command frame: the frames
\* it sends are get-tree requests only.
C14_NoWorkspaceWithViewsNoCommand ==
    ( /\ pc = "done"
      /\ loc.op \in { "get_next_workspace_with_views",
                      "go_next_workspace_with_views" }
      /\ fetches # <<>>
      /\ FreshFetches
      /\ \A o \in FocusedOutputs(mtree) : NamesWithViews(o) = <<>> )
    => /\ ret = None
       /\ \A i \in 1..Len(callSent) : callSent[i].type = GET_TREE

\* C14, its case reached: go_next_workspace_with_views has returned after
\* fetching a tree whose focused output has workspaces but none with a
\* view.
C14_Witness ==
    /\ pc = "done"
    /\ loc.op = "go_next_workspace_with_views"
    /\ FreshFetches
    /\ Len(callSent) >= 1
    /\ \E o \in FocusedOutputs(mtree) :
          WorkspacesOf(o) # <<>> /\ NamesWithViews(o) = <<>>

\* The nodes of the manager's tree with the id, and the workspace name
\* the rule gives for a view: str(pid) for a pid that is a non-zero
\* integer, "unknown" for a pid that is absent, zero or not an integer.
NodesWithId(root, id) == { n \in NodesOf(root) : n.id = id }

NameByRule(view) ==
    IF view.pid.kind = "int" /\ view.pid.n # 0
    THEN ToString(view.pid.n) ELSE "unknown"

\* C15: move_view_to_new_empty_workspace(view_id), for a view that is
\* found, targets the workspace str(pid) when the view's pid is a
\* non-zero integer and "unknown" when the pid is absent, zero or not an
\* integer; the create command and the move command use the same name.
\* Stated on the commands of the call: each is a "workspace" or a
\* "move workspace" command and names the workspace the rule gives.
C15_TargetWorkspaceNamedAfterPid ==
    (pc = "done" /\ loc.op = "move_view_to_new_empty_workspace")
    => \A v \in NodesWithId(mtree, loc.view_id) :
          \A i \in 1..Len(Commands(callSent)) :
              /\ Commands(callSent)[i].cmd.verb
                     \in {"workspace", "move workspace"}
              /\ Commands(callSent)[i].cmd.word = NameByRule(v)

\* C15, its case reached: the call has returned True after a create and
\* a move command for a view whose pid is zero.
C15_Witness ==
    /\ pc = "done"
    /\ loc.op = "move_view_to_new_empty_workspace"
    /\ ret = True
    /\ Len(Commands(callSent)) = 2
    /\ \E v \in NodesWithId(mtree, loc.view_id) :
          v.pid.kind = "int" /\ v.pid.n = 0

\* C16: move_view_to_new_empty_workspace(view_id), for a view that is
\* found: when a workspace with the target name exists in the manager's
\* tree, only the move command is sent; when none exists, the create
\* command "workspace <name>" is sent first and the move command
\* "<selector> move workspace <name>" after it.  Stated on the commands
\* of a call that returned True.
C16_CreateOnlyWhenAbsent ==
    ( /\ pc = "done"
      /\ loc.op = "move_view_to_new_empty_workspace"
      /\ ret = True
      /\ ~mclosed )
    => \A v \in NodesWithId(mtree, loc.view_id) :
          LET name == NameByRule(v)
              create == Cmd("", 0, "workspace", name, <<>>)
              move == Cmd(RuleSelector(v), v.id, "move workspace", name,
                          <<>>)
              cmds == [i \in 1..Len(Commands(callSent)) |->
                          Commands(callSent)[i].cmd]
          IN  IF \E n \in NodesOf(mtree) :
                     n.type = "workspace" /\ n.name = name
              THEN cmds = <<move>>
              ELSE cmds = <<create, move>>

\* The call's first fetch got the reply to its own request, a tree.
FirstFetchFresh ==
    /\ fetches # <<>>
    /\ fetches[1].tag = "cur"
    /\ fetches[1].val.kind = "dict"

\* C17: maximize_view(view_id), for a view that exists while some
\* workspace is focused, sends "floating enable" for the view and then
\* the commands that give it the size of the focused workspace's
\* rectangle (1920 x 1080 when the workspace has no rectangle) at the
\* origin, and returns True.  Stated at the return of a call on a
\* connection without unread replies: the result is True, the first
\* command is the view's "floating enable" and the last one its
\* "resize set" to that size.
C17_MaximizeFillsFocusedWorkspace ==
    ( /\ pc = "done"
      /\ loc.op = "maximize_view"
      /\ FirstFetchFresh
      /\ ~mclosed )
    => \A v \in NodesWithId(mtree, loc.view_id) :
       \A o \in FocusedOutputs(mtree) :
       \A ws \in FocusedWorkspaces(o) :
          LET cmds == Commands(callSent)
              size == IF ws.rect.present /\ ws.rect.sized
                      THEN <<ws.rect.width, ws.rect.height>>
                      ELSE <<1920, 1080>>
          IN  /\ ret = True
              /\ cmds # <<>>
              /\ cmds[1].cmd = Cmd(RuleSelector(v), v.id, "floating",
                                   "enable", <<>>)
              /\ cmds[Len(cmds)].cmd = Cmd(RuleSelector(v), v.id,
                                           "resize set", "", size)

\* C18: go_next_view_in_workspace takes the focused workspace's tiled
\* children, or its floating children when it has no tiled ones; with
\* the focused view at index i of those n children it sends a focus
\* command for the child at index (i+1) mod n, and with the focused view
\* not among them a focus command for the first child.  Stated at the
\* return of a call on a connection without unread replies, for a
\* workspace with two children or more: the call has sent that one
\* command.
C18_FocusGoesToNextView ==
    ( /\ ReturnedFrom("go_next_view_in_workspace")
      /\ FirstFetchFresh
      /\ ~mclosed )
    => \A o \in FocusedOutputs(mtree) :
       \A ws \in FocusedWorkspaces(o) :
          LET kids == IF ws.nodes # <<>> THEN ws.nodes
                      ELSE ws.floating_nodes
              at == { i \in 1..Len(kids) : kids[i].focused }
              target == IF at = {} THEN kids[1]
                        ELSE kids[((CHOOSE i \in at : TRUE) % Len(kids)) + 1]
          IN  Len(kids) >= 2
              => /\ Len(Commands(callSent)) = 1
                 /\ Commands(callSent)[1].cmd =
                       Cmd(RuleSelector(target), target.id, "focus", "", <<>>)

\* Every reply the call fetched is a tree.
AllFetchesTrees ==
    /\ fetches # <<>>
    /\ \A i \in 1..Len(fetches) : fetches[i].val.kind = "dict"

\* The entity the call works on is missing in every tree it fetched: the
\* view with the id, the output with the id, or a focused view.
MissingInFetched ==
    \/ /\ loc.op \in { "configure_view", "move_view_to_workspace",
                        "move_view_to_new_empty_workspace", "maximize_view" }
       /\ \A i \in 1..Len(fetches) : ~HasView(fetches[i].val, loc.view_id)
    \/ /\ loc.op = "show_desktop"
       /\ \A i \in 1..Len(fetches) :
             OutputIn(fetches[i].val, loc.output_id) = {}
    \/ /\ loc.op \in { "go_next_workspace_with_views",
                        "go_next_view_in_workspace", "maximize_view" }
       /\ \A i \in 1..Len(fetches) :
             \A n \in NodesOf(fetches[i].val.node) :
                 n.focused => ~IsViewNode(n)

\* C19: for show_desktop, go_next_workspace_with_views,
\* move_view_to_workspace, move_view_to_new_empty_workspace,
\* maximize_view, go_next_view_in_workspace and configure_view: when
\* the entity the operation needs is missing in the fetched tree, the
\* operation returns None or False, raises nothing and sends no
\* run-command frame.  Stated for calls on a connection that stays open
\* and whose fetches all gave a tree.
C19_MissingEntityNeutralResult ==
    ( /\ pc = "done"
      /\ ~mclosed
      /\ AllFetchesTrees
      /\ MissingInFetched )
    => /\ ret \in {None, False}
       /\ Commands(callSent) = <<>>

\* C19, its case reached: configure_view has returned after looking for
\* a view that none of the trees of its ten attempts holds.
C19_Witness ==
    /\ pc = "done"
    /\ loc.op = "configure_view"
    /\ ~mclosed
    /\ AllFetchesTrees
    /\ Len(fetches) = DefaultMaxRetries
    /\ \A i \in 1..Len(fetches) : ~HasView(fetches[i].val, loc.view_id)

\* C20: with a node of the id view_id in the manager's tree for the
\* whole call and max_retries >= 1, get_view(view_id) returns that node,
\* whatever was done on the connection before the call.
C20_GetViewFindsPresentNode ==
    ( /\ ReturnedFrom("get_view")
      /\ loc.max_retries >= 1
      /\ ~mclosed
      /\ NodesWithId(mtree, loc.view_id) # {} )
    => ret.kind = "dict" /\ ret.node.id = loc.view_id

\* The tree the call fetched last, as a set: empty when the call fetched
\* nothing or got a reply that is no tree.
FetchedTrees ==
    IF fetches # <<>> /\ fetches[Len(fetches)].val.kind = "dict"
    THEN { fetches[Len(fetches)].val.node }
    ELSE {}

\* C21: whenever the fetched tree has a focused node beneath an output
\* node, at any depth, get_focused_output returns that output node; it
\* returns None only when there is no focused node or no output above
\* it.
C21_FocusedOutputIsTheAncestor ==
    ReturnedFrom("get_focused_output")
    => \A t \in FetchedTrees :
          /\ \A o \in FocusedOutputs(t) : ret = Dict(o)
          /\ ret = None => FocusedOutputs(t) = {}

\* The manager has answered the call's request with an object that
\* reports success: the reply is unread in the stream, or the call has
\* received it.
ManagerReportedSuccess ==
    \/ \E i \in 1..Len(inQ) : inQ[i].tag = "cur" /\ inQ[i].kind = "subdict"
    \/ \E i \in 1..Len(fetches) :
          fetches[i].tag = "cur" /\ fetches[i].val.kind = "subdict"

\* C22: watch(events) with allow-listed names only, or with None for
\* the whole allow-list, sends one subscribe frame that carries the
\* names, then receives once; it returns True if the manager's reply to
\* that subscribe request is an object with a true success, and raises
\* otherwise.
C22_WatchReturnsOwnReply ==
    ( /\ pc = "done"
      /\ loc.op = "watch"
      /\ loc.events.none \/ \A i \in 1..Len(loc.events.names) :
             \E j \in 1..Len(valid_events) :
                 valid_events[j] = loc.events.names[i]
      /\ callSent # <<>> )
    => /\ callSent = << [ type |-> SUBSCRIBE, cmd |-> NoCmd,
                           names |-> IF loc.events.none THEN valid_events
                                     ELSE loc.events.names ] >>
       /\ Len(fetches) = 1
       /\ ret = True \/ ret.kind = "raise"
       /\ ManagerReportedSuccess => ret = True

\* C23: when the first six header bytes of a received frame differ from
\* the magic literal, _recv raises, returns no payload and reads no
\* payload byte of that frame.  Stated for a call that began at the
\* start of a frame whose 14 header bytes arrived: it raises ValueError
\* and has read the 14 header bytes and nothing more.
C23_BadMagicRaisesBeforePayload ==
    \A i \in 1..Len(frames) :
        ( /\ CallOn(i)
          /\ Returned
          /\ frames[i].magic # Magic
          /\ frames[i].size >= HeaderLen )
        => /\ rret = RetValueError
           /\ rd = FrameStart(i) + HeaderLen

\* C23, its case reached: _recv has raised on a whole frame with another
\* magic, and the payload bytes of the frame are still unread.
C23_Witness ==
    \E i \in 1..Len(frames) :
        /\ CallOn(i)
        /\ Returned
        /\ frames[i].magic # Magic
        /\ Whole(frames[i])
        /\ frames[i].payload # <<>>
        /\ rret = RetValueError
        /\ Len(wire) >= Len(frames[i].payload)

\* The nodes of a list of trees in depth-first pre-order, the children
\* in `nodes` before those in `floating_nodes`.
RECURSIVE PreOrder(_)
PreOrder(children) ==
    IF children = <<>> THEN <<>>
    ELSE <<Head(children)>>
         \o PreOrder(Head(children).nodes \o Head(children).floating_nodes)
         \o PreOrder(Tail(children))

\* C24 (as amended): for every tree, list_views returns the nodes whose
\* type is "con" or "floating_con" and whose id is not zero, each once,
\* in depth-first pre-order with the children in `nodes` before those in
\* `floating_nodes`.
C24_ListViewsReturnsViewsWithId ==
    ReturnedFrom("list_views")
    => \A t \in FetchedTrees :
          ret = List(SelectSeq(PreOrder(<<t>>),
                     LAMBDA n : /\ n.type \in {"con", "floating_con"}
                                /\ n.id # 0))

\* C24, its case reached: list_views has returned the views of a tree
\* that has tiled and floating views and a container without id.
C24_Witness ==
    /\ ReturnedFrom("list_views")
    /\ \E t \in FetchedTrees :
          /\ \E n \in NodesOf(t) : n.type = "floating_con" /\ n.id = 0
          /\ \E n \in NodesOf(t) : n.type = "floating_con" /\ n.id # 0
          /\ Len(ret.list) >= 2

\* C24 as first stated: list_views returns all the nodes whose type is
\* "con" or "floating_con".
C24_Original ==
    ReturnedFrom("list_views")
    => \A t \in FetchedTrees :
          ret = List(SelectSeq(PreOrder(<<t>>),
                     LAMBDA n : n.type \in {"con", "floating_con"}))

\* The nodes of a tree whose focused flag is set, in depth-first
\* pre-order with `nodes` before `floating_nodes`.
FocusedInPreOrder(t) == SelectSeq(PreOrder(<<t>>), LAMBDA n : n.focused)

\* C25: for every tree, get_focused_view returns the first node in
\* depth-first pre-order, `nodes` before `floating_nodes`, whose focused
\* flag is set, and None when no node has the flag set.
C25_FocusedViewIsFirstFocusedNode ==
    ReturnedFrom("get_focused_view")
    => \A t \in FetchedTrees :
          ret = IF FocusedInPreOrder(t) = <<>> THEN None
                ELSE Dict(FocusedInPreOrder(t)[1])

\* C25, its case reached: get_focused_view has returned a node of the
\* tree it fetched that is a workspace, the focused node of that tree.
C25_Witness ==
    /\ ReturnedFrom("get_focused_view")
    /\ FetchedTrees # {}
    /\ ret.kind = "dict"
    /\ ret.node.type = "workspace"
    /\ ret.node.focused

\* C26: get_view, get_focused_view, list_views, list_outputs,
\* get_output, get_focused_output and get_output_by_name represent "no
\* match" by None or an empty list and never raise for it, for every
\* value get_tree can return, None at the end of the stream and a reply
\* that is no tree included.  Stated at the return of a call whose
\* get_tree has returned: the call raises nothing, unless a later send
\* of its own failed.
C26_QueriesNeverRaiseForNoMatch ==
    ( /\ pc = "done"
      /\ loc.op \in { "get_view", "get_focused_view", "list_views",
                      "list_outputs", "get_output", "get_focused_output",
                      "get_output_by_name" }
      /\ fetches # <<>> )
    => (ret.kind = "raise" => ret = BrokenPipe)

\* C27: every view to which show_desktop(output_id) sends a command is
\* an immediate child of the workspace that is the output's current
\* workspace in the tree fetch from which the view was read, the second
\* fetch of the call, also when the manager changes the output's current
\* workspace between the two fetches.
C27_ShowDesktopViewsOfOneFetch ==
    ( /\ loc.op = "show_desktop"
      /\ Len(fetches) >= 2 )
    => \A o \in OutputIn(fetches[2].val, loc.output_id) :
       \A i \in 1..Len(Commands(callSent)) :
          \E j \in 1..Len(o.nodes) :
             /\ o.nodes[j].type = "workspace"
             /\ o.nodes[j].name = o.current_workspace
             /\ \E k \in 1..Len(o.nodes[j].nodes) :
                    o.nodes[j].nodes[k].id = Commands(callSent)[i].cmd.id

============================================================================
